---- MODULE Spec2Model ----
(***************************************************************************)
(* Query interpretation and metadata-filter compilation of the ZeroEntropy *)
(* sports-games proof of concept: LLMMetadataFilter                        *)
(* (llm_metadata_filter.py), EnhancedLLMMetadataFilter                     *)
(* (enhanced_llm_filter.py) and ZeroEntropyAPI (zeroentropy_api.py).       *)
(*                                                                         *)
(* Python values are represented as follows.                               *)
(*   str   a TLA+ string, handled character by character                   *)
(*   list  a sequence                                                      *)
(*   dict  a sequence of <<key, value>> pairs in insertion order           *)
(*   None  the record NoneValue; Some(v) wraps an Optional that is set     *)
(***************************************************************************)
EXTENDS Integers, Sequences, FiniteSets, TLC

(***************************************************************************)
(* Bounds of the model.                                                    *)
(***************************************************************************)
\* longest list of team surface forms handed to the filter builders
MaxTeams == 2
\* longest list of venue surface forms handed to the filter builders
MaxVenues == 2
\* longest list of date surface forms handed to _build_date_filter
MaxDates == 2
\* longest list of score surface forms handed to _build_score_filter
MaxScores == 2
\* number of consecutive days datetime.now() ranges over
TodayDays == 7
\* longest query text, in characters
MaxQueryLen == 48
\* longest result list handed to the result analysis
MaxResults == 2

(***************************************************************************)
(* Python str methods used by the filter builders.                         *)
(***************************************************************************)
LowerAlpha == "abcdefghijklmnopqrstuvwxyz"
UpperAlpha == "ABCDEFGHIJKLMNOPQRSTUVWXYZ"

Chr(s, i) == SubSeq(s, i, i)

Rest(s) == SubSeq(s, 2, Len(s))

\* lower-case letter -> upper-case letter
UpperOf == [c \in {Chr(LowerAlpha, i) : i \in 1..26} |->
               Chr(UpperAlpha, CHOOSE i \in 1..26 : Chr(LowerAlpha, i) = c)]

\* upper-case letter -> lower-case letter
LowerOf == [c \in {Chr(UpperAlpha, i) : i \in 1..26} |->
               Chr(LowerAlpha, CHOOSE i \in 1..26 : Chr(UpperAlpha, i) = c)]

IsCased(c) == c \in DOMAIN UpperOf \/ c \in DOMAIN LowerOf

UpperChar(c) == IF c \in DOMAIN UpperOf THEN UpperOf[c] ELSE c

LowerChar(c) == IF c \in DOMAIN LowerOf THEN LowerOf[c] ELSE c

\* str.upper()
RECURSIVE Upper(_)
Upper(s) == IF Len(s) = 0 THEN "" ELSE UpperChar(Chr(s, 1)) \o Upper(Rest(s))

\* str.lower()
RECURSIVE Lower(_)
Lower(s) == IF Len(s) = 0 THEN "" ELSE LowerChar(Chr(s, 1)) \o Lower(Rest(s))

\* str.capitalize(): first character upper-cased, the rest lower-cased
Capitalize(s) ==
    IF Len(s) = 0 THEN "" ELSE UpperChar(Chr(s, 1)) \o Lower(Rest(s))

\* str.title(): a cased character is upper-cased when the character before it
\* is not cased, and lower-cased otherwise
RECURSIVE TitleFrom(_, _)
TitleFrom(s, prevCased) ==
    IF Len(s) = 0 THEN ""
    ELSE LET c == Chr(s, 1) IN
         IF IsCased(c)
         THEN (IF prevCased THEN LowerChar(c) ELSE UpperChar(c))
                  \o TitleFrom(Rest(s), TRUE)
         ELSE c \o TitleFrom(Rest(s), FALSE)

Title(s) == TitleFrom(s, FALSE)

\* str.split(): the maximal runs of non-blank characters
RECURSIVE SplitFrom(_, _)
SplitFrom(s, word) ==
    IF Len(s) = 0 THEN (IF Len(word) > 0 THEN <<word>> ELSE << >>)
    ELSE IF Chr(s, 1) = " "
         THEN (IF Len(word) > 0 THEN <<word>> ELSE << >>) \o SplitFrom(Rest(s), "")
         ELSE SplitFrom(Rest(s), word \o Chr(s, 1))

Split(s) == SplitFrom(s, "")

\* ' '.join(words)
RECURSIVE Join(_)
Join(words) ==
    IF Len(words) = 0 THEN ""
    ELSE IF Len(words) = 1 THEN words[1]
    ELSE words[1] \o " " \o Join(Tail(words))

\* the concatenation of a sequence of sequences (list.extend in a loop)
RECURSIVE Flatten(_)
Flatten(seqs) ==
    IF Len(seqs) = 0 THEN << >> ELSE Head(seqs) \o Flatten(Tail(seqs))

\* list(dict.fromkeys(xs)): duplicates removed, first occurrences kept in order
RECURSIVE DedupFrom(_, _)
DedupFrom(xs, seen) ==
    IF Len(xs) = 0 THEN seen
    ELSE IF \E i \in 1..Len(seen) : seen[i] = xs[1]
         THEN DedupFrom(Tail(xs), seen)
         ELSE DedupFrom(Tail(xs), Append(seen, xs[1]))

Dedup(xs) == DedupFrom(xs, << >>)

(***************************************************************************)
(* Python dict and Optional.                                               *)
(***************************************************************************)
EmptyDict == << >>

Entry(k, v) == << <<k, v>> >>

HasKey(d, k) == \E i \in 1..Len(d) : d[i][1] = k

Get(d, k) == d[CHOOSE i \in 1..Len(d) : d[i][1] = k][2]

\* truth value of a dict, list or str: non-empty
Truthy(v) == Len(v) > 0

NoneValue == [some |-> FALSE]

Some(v) == [some |-> TRUE, val |-> v]

\* {field: {operator: value}}
Leaf(field, operator, value) == Entry(field, Entry(operator, value))

(***************************************************************************)
(* LLMMetadataFilter.build_metadata_filter                                 *)
(***************************************************************************)
\* the home_team and away_team equality leaves of every team, in list order
RECURSIVE team_filters(_)
team_filters(teams) ==
    IF Len(teams) = 0 THEN << >>
    ELSE << Leaf("home_team", "$eq", Title(teams[1])),
            Leaf("away_team", "$eq", Title(teams[1])) >>
             \o team_filters(Tail(teams))

team_conditions(extracted_filters) ==
    IF ~HasKey(extracted_filters, "teams") THEN << >>
    ELSE LET teams == Get(extracted_filters, "teams") IN
         IF Len(teams) = 1
         THEN << Entry("$or", << Leaf("home_team", "$eq", Title(teams[1])),
                                 Leaf("away_team", "$eq", Title(teams[1])) >>) >>
         ELSE << Entry("$or", team_filters(teams)) >>

\* the four case forms of one venue name
venue_variations(venue) ==
    << Title(venue), Lower(venue), Upper(venue), Capitalize(venue) >>

\* the venue name with its i-th word title-cased, for every word
partial_variations(venue_name) ==
    LET words == Split(venue_name) IN
    IF Len(words) > 1
    THEN [i \in 1..Len(words) |->
             Join([j \in 1..Len(words) |->
                      IF j = i THEN Title(words[j]) ELSE words[j]])]
    ELSE << >>

RECURSIVE venue_variations_list(_)
venue_variations_list(venues) ==
    IF Len(venues) = 0 THEN << >>
    ELSE venue_variations(venues[1]) \o venue_variations_list(Tail(venues))

single_venue_condition(venue_name) ==
    Leaf("venue", "$in",
         Dedup(venue_variations(venue_name) \o venue_variations(venue_name)
                   \o partial_variations(venue_name)))

venue_conditions(extracted_filters) ==
    IF ~HasKey(extracted_filters, "venues") THEN << >>
    ELSE LET venues == Get(extracted_filters, "venues") IN
         IF Len(venues) = 1
         THEN << single_venue_condition(venues[1]) >>
         ELSE << Leaf("venue", "$in", Dedup(venue_variations_list(venues))) >>

\* status and league: one value -> $eq, several -> $in, title-cased
value_conditions(extracted_filters, key, field) ==
    IF ~HasKey(extracted_filters, key) THEN << >>
    ELSE LET values == Get(extracted_filters, key) IN
         IF Len(values) = 1
         THEN << Leaf(field, "$eq", Title(values[1])) >>
         ELSE << Leaf(field, "$in", [i \in 1..Len(values) |-> Title(values[i])]) >>

\* combine with the unwrapped single clause forgotten: any clauses go under $and
combine_always_wrapping(conditions) ==
    IF Len(conditions) >= 1 THEN Entry("$and", conditions) ELSE EmptyDict

\* "Combine all conditions"
combine(conditions) ==
    IF Len(conditions) = 1 THEN conditions[1]
    ELSE IF Len(conditions) > 1 THEN Entry("$and", conditions)
    ELSE EmptyDict

(***************************************************************************)
(* datetime: a date is its proleptic Gregorian ordinal (date.toordinal()), *)
(* so that date +/- timedelta(days=n) is integer arithmetic.               *)
(***************************************************************************)
is_leap(year) == year % 4 = 0 /\ (year % 100 # 0 \/ year % 400 = 0)

days_in_month(year, month) ==
    IF month = 2 THEN (IF is_leap(year) THEN 29 ELSE 28)
    ELSE IF month \in {4, 6, 9, 11} THEN 30 ELSE 31

days_before_year(year) ==
    LET y == year - 1 IN y * 365 + (y \div 4) - (y \div 100) + (y \div 400)

RECURSIVE days_before_month(_, _)
days_before_month(year, month) ==
    IF month = 1 THEN 0
    ELSE days_before_month(year, month - 1) + days_in_month(year, month - 1)

\* date(year, month, day).toordinal()
ymd2ord(year, month, day) ==
    days_before_year(year) + days_before_month(year, month) + day

\* date.fromordinal(n) as [year, month, day]
ord2ymd(n) ==
    LET year  == CHOOSE y \in (n \div 366)..(n \div 365 + 1) :
                     days_before_year(y) < n /\ n <= days_before_year(y + 1)
        rest  == n - days_before_year(year)
        month == CHOOSE m \in 1..12 :
                     /\ days_before_month(year, m) < rest
                     /\ rest <= days_before_month(year, m) + days_in_month(year, m)
    IN [year |-> year, month |-> month, day |-> rest - days_before_month(year, month)]

\* date.weekday(): Monday is 0, Sunday is 6
weekday(n) == (n + 6) % 7

DigitChars == "0123456789"

\* the decimal digits of n, zero-padded to the given width
RECURSIVE ZeroPad(_, _)
ZeroPad(n, width) ==
    IF width = 0 THEN ""
    ELSE ZeroPad(n \div 10, width - 1) \o Chr(DigitChars, (n % 10) + 1)

\* date.strftime("%Y-%m-%d")
strftime(n) ==
    LET d == ord2ymd(n) IN
    ZeroPad(d.year, 4) \o "-" \o ZeroPad(d.month, 2) \o "-" \o ZeroPad(d.day, 2)

\* Python's  sub in s  on two strings
Contains(s, sub) ==
    \E i \in 1..(Len(s) - Len(sub) + 1) : SubSeq(s, i, i + Len(sub) - 1) = sub

(***************************************************************************)
(* LLMMetadataFilter._build_date_filter and _build_score_filter            *)
(***************************************************************************)
RECURSIVE _build_date_filter(_, _)
_build_date_filter(date_patterns, today) ==
    IF Len(date_patterns) = 0 THEN NoneValue
    ELSE LET pattern == date_patterns[1] IN
         IF Contains(pattern, "today") \/ Contains(pattern, "tonight")
         THEN Some(Leaf("date", "$eq", strftime(today)))
         ELSE IF Contains(pattern, "yesterday")
         THEN Some(Leaf("date", "$eq", strftime(today - 1)))
         ELSE IF Contains(pattern, "tomorrow")
         THEN Some(Leaf("date", "$eq", strftime(today + 1)))
         ELSE IF Contains(pattern, "this week") \/ Contains(pattern, "this weekend")
         THEN LET week_start == today - weekday(today) IN
              Some(Leaf("date", "$gte", strftime(week_start)))
         ELSE IF Contains(pattern, "last week") \/ Contains(pattern, "last weekend")
         THEN LET week_start == today - (weekday(today) + 7)
                  week_end   == week_start + 6
              IN Some(Entry("$and", << Leaf("date", "$gte", strftime(week_start)),
                                       Leaf("date", "$lte", strftime(week_end)) >>))
         ELSE IF Contains(pattern, "august") \/ Contains(pattern, "aug")
         THEN Some(Entry("date", << <<"$gte", "2024-08-01">>, <<"$lt", "2024-09-01">> >>))
         ELSE IF Contains(pattern, "september") \/ Contains(pattern, "sep")
         THEN Some(Entry("date", << <<"$gte", "2024-09-01">>, <<"$lt", "2024-10-01">> >>))
         ELSE _build_date_filter(Tail(date_patterns), today)

RECURSIVE _build_score_filter(_)
_build_score_filter(score_patterns) ==
    IF Len(score_patterns) = 0 THEN NoneValue
    ELSE LET pattern == score_patterns[1] IN
         IF Contains(pattern, "high scoring") \/ Contains(pattern, "lots of goals")
         THEN Some(Entry("$or", << Leaf("home_score", "$gte", "3"),
                                   Leaf("away_score", "$gte", "3") >>))
         ELSE IF Contains(pattern, "low scoring") \/ Contains(pattern, "few goals")
         THEN Some(Entry("$and", << Leaf("home_score", "$lte", "1"),
                                    Leaf("away_score", "$lte", "1") >>))
         ELSE IF \/ Contains(pattern, "goalless") \/ Contains(pattern, "no goals")
                 \/ Contains(pattern, "0-0")
         THEN Some(Entry("$and", << Leaf("home_score", "$eq", "0"),
                                    Leaf("away_score", "$eq", "0") >>))
         ELSE IF Contains(pattern, "draw") \/ Contains(pattern, "tie")
         THEN Some(Leaf("home_score", "$eq", "away_score"))
         ELSE _build_score_filter(Tail(score_patterns))

\* "if date_filter:" / "if score_filter:" then append
optional_condition(opt) ==
    IF opt.some /\ Truthy(opt.val) THEN << opt.val >> ELSE << >>

date_conditions(extracted_filters, today) ==
    IF HasKey(extracted_filters, "dates")
    THEN optional_condition(_build_date_filter(Get(extracted_filters, "dates"), today))
    ELSE << >>

score_conditions(extracted_filters) ==
    IF HasKey(extracted_filters, "scores")
    THEN optional_condition(_build_score_filter(Get(extracted_filters, "scores")))
    ELSE << >>

\* filter_conditions as it stands before "Combine all conditions"
collect_conditions(extracted_filters, today) ==
    team_conditions(extracted_filters)
        \o venue_conditions(extracted_filters)
        \o date_conditions(extracted_filters, today)
        \o score_conditions(extracted_filters)
        \o value_conditions(extracted_filters, "status", "status")
        \o value_conditions(extracted_filters, "leagues", "league")

build_metadata_filter(extracted_filters, today) ==
    combine(collect_conditions(extracted_filters, today))

(***************************************************************************)
(* EnhancedLLMMetadataFilter._build_metadata_filter_fallback               *)
(***************************************************************************)
\* the fallback putting several teams under an $or it never fills
team_conditions_fallback_wrapping(extracted_filters) ==
    IF ~HasKey(extracted_filters, "teams") THEN << >>
    ELSE LET teams == Get(extracted_filters, "teams") IN
         IF Len(teams) = 1
         THEN << Entry("$or", << Leaf("home_team", "$eq", Title(teams[1])),
                                 Leaf("away_team", "$eq", Title(teams[1])) >>) >>
         ELSE << Entry("$or", << >>) >>

team_conditions_fallback(extracted_filters) ==
    IF ~HasKey(extracted_filters, "teams") THEN << >>
    ELSE LET teams == Get(extracted_filters, "teams") IN
         IF Len(teams) = 1
         THEN << Entry("$or", << Leaf("home_team", "$eq", Title(teams[1])),
                                 Leaf("away_team", "$eq", Title(teams[1])) >>) >>
         ELSE << >>

venue_conditions_fallback(extracted_filters) ==
    IF ~HasKey(extracted_filters, "venues") THEN << >>
    ELSE LET venues == Get(extracted_filters, "venues") IN
         IF Len(venues) = 1
         THEN << single_venue_condition(venues[1]) >>
         ELSE << >>

collect_conditions_fallback(extracted_filters) ==
    team_conditions_fallback(extracted_filters)
        \o venue_conditions_fallback(extracted_filters)

_build_metadata_filter_fallback(extracted_filters) ==
    combine(collect_conditions_fallback(extracted_filters))

(***************************************************************************)
(* The re module, for the patterns of the catalog.  A pattern is a tree of *)
(* Lit, Digit, Space, Cat, Alt, Rep and Group nodes; Match gives the       *)
(* matches starting at one position in the order the backtracking matcher  *)
(* tries them (alternatives left to right, repetitions greedy), so the     *)
(* first one is the match Python reports.                                  *)
(***************************************************************************)
Lit(s) == [kind |-> "lit", s |-> s]

Digit == [kind |-> "digit"]

Space == [kind |-> "space"]

Cat(subs) == [kind |-> "cat", subs |-> subs]

Alt(subs) == [kind |-> "alt", subs |-> subs]

Rep(sub, min, max) == [kind |-> "rep", sub |-> sub, min |-> min, max |-> max]

Group(sub) == [kind |-> "group", sub |-> sub]

\* (a|b|c) over literal alternatives
Words(alternatives) ==
    Group(Alt([i \in 1..Len(alternatives) |-> Lit(alternatives[i])]))

DigitSet == {Chr(DigitChars, i) : i \in 1..10}

\* number of capturing groups of a pattern
RECURSIVE NumGroups(_)
NumGroups(node) ==
    IF node.kind = "group" THEN 1 + NumGroups(node.sub)
    ELSE IF node.kind = "rep" THEN NumGroups(node.sub)
    ELSE IF node.kind \in {"cat", "alt"}
         THEN LET N[i \in 0..Len(node.subs)] ==
                      IF i = 0 THEN 0 ELSE N[i - 1] + NumGroups(node.subs[i])
              IN N[Len(node.subs)]
    ELSE 0

\* a match: the position after it and the text of its groups
Matched(end, groups) == [end |-> end, groups |-> groups]

RECURSIVE Match(_, _, _)
RECURSIVE MatchCat(_, _, _, _)
RECURSIVE MatchRep(_, _, _, _, _)

Match(node, text, i) ==
    IF node.kind = "lit"
    THEN IF i + Len(node.s) - 1 <= Len(text)
            /\ SubSeq(text, i, i + Len(node.s) - 1) = node.s
         THEN << Matched(i + Len(node.s), << >>) >> ELSE << >>
    ELSE IF node.kind = "digit"
    THEN IF i <= Len(text) /\ Chr(text, i) \in DigitSet
         THEN << Matched(i + 1, << >>) >> ELSE << >>
    ELSE IF node.kind = "space"
    THEN IF i <= Len(text) /\ Chr(text, i) = " "
         THEN << Matched(i + 1, << >>) >> ELSE << >>
    ELSE IF node.kind = "alt"
    THEN Flatten([k \in 1..Len(node.subs) |-> Match(node.subs[k], text, i)])
    ELSE IF node.kind = "cat"
    THEN MatchCat(node.subs, text, i, << >>)
    ELSE IF node.kind = "rep"
    THEN MatchRep(node, text, i, 0, [k \in 1..NumGroups(node.sub) |-> ""])
    ELSE \* group
         LET inner == Match(node.sub, text, i) IN
         [k \in 1..Len(inner) |->
             Matched(inner[k].end,
                     << SubSeq(text, i, inner[k].end - 1) >> \o inner[k].groups)]

MatchCat(subs, text, i, groups) ==
    IF Len(subs) = 0 THEN << Matched(i, groups) >>
    ELSE LET first == Match(subs[1], text, i) IN
         Flatten([k \in 1..Len(first) |->
                     MatchCat(Tail(subs), text, first[k].end,
                              groups \o first[k].groups)])

\* greedy: one more repetition is tried before stopping; a group that took
\* part in no repetition captures nothing
MatchRep(node, text, i, count, groups) ==
    LET more == IF count < node.max
                THEN LET step == Match(node.sub, text, i) IN
                     Flatten([k \in 1..Len(step) |->
                                 IF step[k].end > i
                                 THEN MatchRep(node, text, step[k].end,
                                               count + 1, step[k].groups)
                                 ELSE << >>])
                ELSE << >>
        stop == IF count >= node.min THEN << Matched(i, groups) >> ELSE << >>
    IN more \o stop

\* what re.findall reports for one match: the group of a one-group pattern,
\* a tuple of the groups of a pattern with several
Reported(m) ==
    IF Len(m.groups) = 1 THEN m.groups[1] ELSE [tuple |-> m.groups]

\* re.findall(pattern, text): leftmost matches, scanned without overlap
RECURSIVE FindAllFrom(_, _, _)
FindAllFrom(pattern, text, i) ==
    IF i > Len(text) + 1 THEN << >>
    ELSE LET found == Match(pattern, text, i) IN
         IF Len(found) = 0 THEN FindAllFrom(pattern, text, i + 1)
         ELSE << Reported(found[1]) >>
                  \o FindAllFrom(pattern, text,
                                 IF found[1].end > i THEN found[1].end ELSE i + 1)

findall(pattern, text) == FindAllFrom(pattern, text, 1)

\* re.search(pattern, text).group(1) as an Optional
RECURSIVE SearchFrom(_, _, _)
SearchFrom(pattern, text, i) ==
    IF i > Len(text) + 1 THEN NoneValue
    ELSE LET found == Match(pattern, text, i) IN
         IF Len(found) = 0 THEN SearchFrom(pattern, text, i + 1)
         ELSE Some(found[1].groups[1])

search(pattern, text) == SearchFrom(pattern, text, 1)

(***************************************************************************)
(* The pattern catalog: LLMMetadataFilter.filter_patterns.  The first two  *)
(* categories, with the same patterns, and the date patterns are           *)
(* EnhancedLLMMetadataFilter.fallback_patterns.                            *)
(***************************************************************************)
team_patterns ==
    << Words(<<"manchester united", "man utd", "united">>),
       Words(<<"liverpool", "reds">>),
       Words(<<"arsenal", "gunners">>),
       Words(<<"chelsea", "blues">>),
       Words(<<"manchester city", "city">>),
       Words(<<"tottenham", "spurs">>),
       Words(<<"newcastle", "magpies">>),
       Words(<<"aston villa", "villa">>),
       Words(<<"west ham", "hammers">>),
       Words(<<"brighton", "seagulls">>),
       Words(<<"crystal palace", "palace">>),
       Words(<<"brentford", "bees">>),
       Words(<<"fulham", "cottagers">>),
       Words(<<"wolves">>),
       Words(<<"nottingham forest", "forest">>),
       Words(<<"burnley", "clarets">>),
       Words(<<"sheffield united", "blades">>),
       Words(<<"everton", "toffees">>),
       Words(<<"luton town", "luton">>),
       Words(<<"bournemouth", "cherries">>) >>

venue_patterns ==
    << Words(<<"old trafford">>),
       Words(<<"anfield">>),
       Words(<<"emirates stadium", "emirates">>),
       Words(<<"stamford bridge">>),
       Words(<<"etihad stadium", "etihad">>),
       Words(<<"tottenham hotspur stadium">>),
       Words(<<"st james park">>),
       Words(<<"villa park">>),
       Words(<<"london stadium">>),
       Words(<<"amex stadium", "amex">>),
       Words(<<"selhurst park">>),
       Words(<<"gtech community stadium">>),
       Words(<<"craven cottage">>),
       Words(<<"molineux stadium", "molineux">>),
       Words(<<"city ground">>),
       Words(<<"turf moor">>),
       Words(<<"bramall lane">>),
       Words(<<"goodison park">>),
       Words(<<"kenilworth road">>),
       Words(<<"vitality stadium">>) >>

date_patterns_catalog ==
    << Words(<<"today", "tonight">>),
       Words(<<"yesterday">>),
       Words(<<"tomorrow">>),
       Words(<<"this week", "this weekend">>),
       Words(<<"last week", "last weekend">>),
       Words(<<"next week", "next weekend">>),
       Words(<<"august", "aug">>),
       Words(<<"september", "sep">>),
       \* (\d{1,2}(st|nd|rd|th)?\s+(august|aug|september|sep))
       Group(Cat(<< Rep(Digit, 1, 2),
                    Rep(Words(<<"st", "nd", "rd", "th">>), 0, 1),
                    Rep(Space, 1, MaxQueryLen),
                    Words(<<"august", "aug", "september", "sep">>) >>)),
       \* (\d{4}-\d{2}-\d{2})
       Group(Cat(<< Rep(Digit, 4, 4), Lit("-"), Rep(Digit, 2, 2), Lit("-"),
                    Rep(Digit, 2, 2) >>)) >>

score_patterns_catalog ==
    << Words(<<"high scoring", "high score", "lots of goals">>),
       Words(<<"low scoring", "low score", "few goals">>),
       Words(<<"goalless", "no goals", "0-0">>),
       Words(<<"draw", "tie">>),
       Words(<<"win", "victory", "defeat", "loss">>),
       \* (\d+-\d+)
       Group(Cat(<< Rep(Digit, 1, MaxQueryLen), Lit("-"),
                    Rep(Digit, 1, MaxQueryLen) >>)) >>

status_patterns ==
    << Words(<<"completed", "finished", "played">>),
       Words(<<"scheduled", "upcoming", "future">>),
       Words(<<"cancelled", "postponed">>) >>

league_patterns ==
    << Words(<<"premier league", "epl", "english premier league">>),
       Words(<<"championship">>),
       Words(<<"fa cup">>),
       Words(<<"carabao cup">>) >>

\* filter_patterns in the order of the dict: <<filter_type, patterns>>
filter_patterns ==
    << <<"teams", team_patterns>>, <<"venues", venue_patterns>>,
       <<"dates", date_patterns_catalog>>, <<"scores", score_patterns_catalog>>,
       <<"status", status_patterns>>, <<"leagues", league_patterns>> >>

fallback_patterns ==
    << <<"teams", team_patterns>>, <<"venues", venue_patterns>>,
       <<"dates", date_patterns_catalog>> >>

(***************************************************************************)
(* LLMMetadataFilter.analyze_query_intent                                  *)
(***************************************************************************)
\* the matches of every pattern of one category, pattern by pattern
category_matches(patterns, query_lower) ==
    Flatten([k \in 1..Len(patterns) |-> findall(patterns[k], query_lower)])

\* the category entries in catalog order; a category without match is absent
pattern_filters_with(catalog, query_lower) ==
    Flatten([c \in 1..Len(catalog) |->
                LET matches == category_matches(catalog[c][2], query_lower)
                IN IF Len(matches) > 0
                   THEN Entry(catalog[c][1], matches) ELSE EmptyDict])

\* with the catalog of the object, self.filter_patterns
pattern_filters(query_lower) == pattern_filters_with(filter_patterns, query_lower)

\* any(word in query for word in words)
AnyIn(words, text) == \E w \in words : Contains(text, w)

\* _analyze_complex_patterns: the keys it sets on the extraction result
complex_filters(query_lower) ==
    (IF AnyIn({"recent", "latest", "newest"}, query_lower)
     THEN Entry("time_recency", <<"recent">>) ELSE EmptyDict)
    \o (IF AnyIn({"classic", "historic", "memorable"}, query_lower)
        THEN Entry("game_quality", <<"classic">>) ELSE EmptyDict)
    \o (IF AnyIn({"dominant", "strong", "weak"}, query_lower)
        THEN Entry("performance", <<"performance_analysis">>) ELSE EmptyDict)
    \o (IF AnyIn({"rivalry", "derby", "classic"}, query_lower)
        THEN Entry("rivalry", <<"rivalry_match">>) ELSE EmptyDict)

analyze_query_intent(query) ==
    pattern_filters(Lower(query)) \o complex_filters(Lower(query))

(***************************************************************************)
(* EnhancedLLMMetadataFilter._analyze_query_intent_fallback                *)
(***************************************************************************)
\* group(1) of the first match of every pattern that matches, in catalog order
search_matches(patterns, query_lower) ==
    Flatten([k \in 1..Len(patterns) |->
                LET m == search(patterns[k], query_lower) IN
                IF m.some THEN << m.val >> ELSE << >>])

_analyze_query_intent_fallback(query) ==
    LET teams  == search_matches(team_patterns, Lower(query))
        venues == search_matches(venue_patterns, Lower(query))
    IN (IF Len(teams) > 0 THEN Entry("teams", teams) ELSE EmptyDict)
       \o (IF Len(venues) > 0 THEN Entry("venues", venues) ELSE EmptyDict)

(***************************************************************************)
(* Search results.  A result has the path of its document and a metadata   *)
(* dict; a metadata value is a string, null, or missing from the dict.  A  *)
(* result whose metadata is None reads as one with every key missing       *)
(* ("result.metadata or {}").                                              *)
(***************************************************************************)
FieldMissing == [kind |-> "missing"]

FieldNull == [kind |-> "null"]

Str(s) == [kind |-> "str", s |-> s]

\* metadata.get(key, default)
get(metadata, key, default) ==
    IF metadata[key].kind = "missing" THEN Str(default) ELSE metadata[key]

\* "not value" for a metadata value
Falsy(value) == value.kind = "null" \/ (value.kind = "str" /\ Len(value.s) = 0)

RECURSIVE StripLeft(_)
StripLeft(s) ==
    IF Len(s) > 0 /\ Chr(s, 1) = " " THEN StripLeft(Rest(s)) ELSE s

RECURSIVE StripRight(_)
StripRight(s) ==
    IF Len(s) > 0 /\ Chr(s, Len(s)) = " "
    THEN StripRight(SubSeq(s, 1, Len(s) - 1)) ELSE s

AllDigits(s) == Len(s) > 0 /\ \A i \in 1..Len(s) : Chr(s, i) \in DigitSet

DigitValue(c) == (CHOOSE i \in 1..10 : Chr(DigitChars, i) = c) - 1

RECURSIVE DigitsValue(_)
DigitsValue(s) ==
    IF Len(s) = 0 THEN 0
    ELSE DigitsValue(SubSeq(s, 1, Len(s) - 1)) * 10 + DigitValue(Chr(s, Len(s)))

\* int(s) for a str: blanks around, an optional sign, decimal digits;
\* NoneValue stands for ValueError
int(s) ==
    LET t    == StripRight(StripLeft(s))
        sign == IF Len(t) > 0 /\ Chr(t, 1) \in {"+", "-"} THEN Chr(t, 1) ELSE ""
        body == IF sign = "" THEN t ELSE Rest(t)
    IN IF AllDigits(body)
       THEN Some(IF sign = "-" THEN 0 - DigitsValue(body) ELSE DigitsValue(body))
       ELSE NoneValue

(***************************************************************************)
(* EnhancedLLMMetadataFilter._analyze_win_loss_results                     *)
(***************************************************************************)
\* win_loss_bucket with the away branch copied from the home branch, the
\* comparisons not turned round
win_loss_bucket_home_view(result, team) ==
    LET metadata   == result.metadata
        home_team  == get(metadata, "home_team", "")
        away_team  == get(metadata, "away_team", "")
        home_score == get(metadata, "home_score", "0")
        away_score == get(metadata, "away_score", "0")
    IN IF Falsy(home_score) \/ Falsy(away_score) THEN "none"
       ELSE IF ~int(home_score.s).some \/ ~int(away_score.s).some THEN "none"
       ELSE LET home_score_int == int(home_score.s).val
                away_score_int == int(away_score.s).val
            IN IF home_team = Str(team) \/ away_team = Str(team)
               THEN (IF home_score_int > away_score_int THEN "wins"
                     ELSE IF home_score_int < away_score_int THEN "losses"
                     ELSE "draws")
               ELSE "none"

\* the list one result is appended to: "wins", "losses", "draws" or "none"
win_loss_bucket(result, team) ==
    LET metadata   == result.metadata
        home_team  == get(metadata, "home_team", "")
        away_team  == get(metadata, "away_team", "")
        home_score == get(metadata, "home_score", "0")
        away_score == get(metadata, "away_score", "0")
    IN IF Falsy(home_score) \/ Falsy(away_score) THEN "none"
       ELSE IF ~int(home_score.s).some \/ ~int(away_score.s).some THEN "none"
       ELSE LET home_score_int == int(home_score.s).val
                away_score_int == int(away_score.s).val
            IN IF home_team = Str(team)
               THEN (IF home_score_int > away_score_int THEN "wins"
                     ELSE IF home_score_int < away_score_int THEN "losses"
                     ELSE "draws")
               ELSE IF away_team = Str(team)
               THEN (IF away_score_int > home_score_int THEN "wins"
                     ELSE IF away_score_int < home_score_int THEN "losses"
                     ELSE "draws")
               ELSE "none"

Bucket(result_list, team, name) ==
    SelectSeq(result_list, LAMBDA r : win_loss_bucket(r, team) = name)

_analyze_win_loss_results(result_list, team) ==
    LET wins   == Bucket(result_list, team, "wins")
        losses == Bucket(result_list, team, "losses")
        draws  == Bucket(result_list, team, "draws")
    IN [wins |-> wins, losses |-> losses, draws |-> draws,
        total_games |-> Len(result_list),
        win_count |-> Len(wins), loss_count |-> Len(losses),
        draw_count |-> Len(draws)]

(***************************************************************************)
(* EnhancedLLMMetadataFilter._correct_date_range                           *)
(***************************************************************************)
\* what an operation hands back: a returned value or a raised exception
Returned(value) == [ret |-> Some(value), raised |-> ""]

Raised(exception) == [ret |-> NoneValue, raised |-> exception]

\* text.split(sep) for a one-character sep
RECURSIVE SplitOn(_, _, _)
SplitOn(text, sep, part) ==
    IF Len(text) = 0 THEN << part >>
    ELSE IF Chr(text, 1) = sep THEN << part >> \o SplitOn(Rest(text), sep, "")
    ELSE SplitOn(Rest(text), sep, part \o Chr(text, 1))

\* the number a %m or %d field reads, 0 when the field does not match:
\* one or two digits, for %d also a blank and a digit
FieldValue(field, blank_allowed) ==
    IF Len(field) \in {1, 2} /\ AllDigits(field) THEN DigitsValue(field)
    ELSE IF /\ blank_allowed /\ Len(field) = 2 /\ Chr(field, 1) = " "
            /\ AllDigits(Rest(field))
    THEN DigitsValue(Rest(field))
    ELSE 0

\* datetime.strptime(date_string, '%Y-%m-%d') as the ordinal of the date;
\* NoneValue stands for ValueError
strptime(date_string) ==
    LET parts == SplitOn(date_string, "-", "") IN
    IF Len(parts) # 3 THEN NoneValue
    ELSE IF ~(Len(parts[1]) = 4 /\ AllDigits(parts[1])) THEN NoneValue
    ELSE LET year  == DigitsValue(parts[1])
             month == FieldValue(parts[2], FALSE)
             day   == FieldValue(parts[3], TRUE)
         IN IF /\ year >= 1
               /\ month \in 1..12
               /\ day >= 1
               /\ day <= days_in_month(year, month)
            THEN Some(ymd2ord(year, month, day))
            ELSE NoneValue

\* _correct_date_range with "start_dt >= end_dt" for "start_dt > end_dt"
_correct_date_range_swapping_equal(start_date, end_date) ==
    LET start_dt == strptime(start_date)
        end_dt   == strptime(end_date)
    IN IF ~start_dt.some \/ ~end_dt.some
       THEN Returned(<<start_date, end_date, FALSE>>)
       ELSE IF start_dt.val >= end_dt.val
       THEN Returned(<<end_date, start_date, TRUE>>)
       ELSE Returned(<<start_date, end_date, FALSE>>)

_correct_date_range(start_date, end_date) ==
    LET start_dt == strptime(start_date)
        end_dt   == strptime(end_date)
    IN IF ~start_dt.some \/ ~end_dt.some
       THEN Returned(<<start_date, end_date, FALSE>>)
       ELSE IF start_dt.val > end_dt.val
       THEN Returned(<<end_date, start_date, TRUE>>)
       ELSE Returned(<<start_date, end_date, FALSE>>)

(***************************************************************************)
(* ZeroEntropyAPI: _make_request, search_documents, search_sports_games    *)
(***************************************************************************)
\* the ways requests.post / raise_for_status / response.json can end; a body
\* that is not JSON raises requests.exceptions.JSONDecodeError, a
\* RequestException, or with an older requests a plain ValueError
HttpOutcomes ==
    {"ok", "connection_error", "http_error", "not_json", "not_json_value_error"}

\* "getattr(response, 'status_code', None)" reads the local response, which
\* is not bound when requests.post itself raised
_make_request(payload, http, body) ==
    IF http = "ok" THEN Returned(body)
    ELSE IF http = "connection_error" THEN Raised("UnboundLocalError")
    ELSE IF http = "http_error"
    THEN Returned(<< <<"error", "HTTPError">>, <<"status_code", Some(500)>> >>)
    ELSE IF http = "not_json"
    THEN Returned(<< <<"error", "JSONDecodeError">>, <<"status_code", Some(200)>> >>)
    ELSE Returned(<< <<"error", "JSONDecodeError">>, <<"status_code", NoneValue>> >>)

\* search_documents_payload with "if filter_dict is not None:" for
\* "if filter_dict:"
search_documents_payload_unless_none(collection_name, text, k, filter_dict, include_metadata, reranker, latency_mode) ==
    << <<"collection_name", collection_name>>, <<"query", text>>, <<"k", k>> >>
    \o (IF filter_dict.some
        THEN Entry("filter", filter_dict.val) ELSE EmptyDict)
    \o (IF include_metadata
        THEN Entry("include_metadata", include_metadata) ELSE EmptyDict)
    \o (IF reranker.some /\ Truthy(reranker.val)
        THEN Entry("reranker", reranker.val) ELSE EmptyDict)
    \o (IF Truthy(latency_mode)
        THEN Entry("latency_mode", latency_mode) ELSE EmptyDict)

\* the payload search_documents posts; filter_dict and reranker are Optionals
search_documents_payload(collection_name, text, k, filter_dict, include_metadata, reranker, latency_mode) ==
    << <<"collection_name", collection_name>>, <<"query", text>>, <<"k", k>> >>
    \o (IF filter_dict.some /\ Truthy(filter_dict.val)
        THEN Entry("filter", filter_dict.val) ELSE EmptyDict)
    \o (IF include_metadata
        THEN Entry("include_metadata", include_metadata) ELSE EmptyDict)
    \o (IF reranker.some /\ Truthy(reranker.val)
        THEN Entry("reranker", reranker.val) ELSE EmptyDict)
    \o (IF Truthy(latency_mode)
        THEN Entry("latency_mode", latency_mode) ELSE EmptyDict)

\* the filter_dict search_sports_games builds; venue, team, date are Optionals
sports_games_filter(venue, team, date) ==
    (IF venue.some /\ Truthy(venue.val)
     THEN Leaf("venue", "$eq", venue.val) ELSE EmptyDict)
    \o (IF team.some /\ Truthy(team.val)
        THEN Leaf("team", "$eq", team.val) ELSE EmptyDict)
    \o (IF date.some /\ Truthy(date.val)
        THEN Leaf("date", "$eq", date.val) ELSE EmptyDict)

(***************************************************************************)
(* The search through the SDK client, self.client.queries.top_documents,   *)
(* and the response texts.  Of a response only whether building it raises  *)
(* is modelled.                                                            *)
(***************************************************************************)
BackendFailure == [ok |-> FALSE, results |-> << >>]

BackendResults(result_list) == [ok |-> TRUE, results |-> result_list]

\* query_params with "if metadata_filter:" alone deciding on the filter key
query_params_for_any_filter(collection_name, text, k, with_filter, filter) ==
    << <<"collection_name", collection_name>>, <<"query", text>>, <<"k", k>>,
       <<"include_metadata", TRUE>> >>
    \o (IF Truthy(filter) THEN Entry("filter", filter) ELSE EmptyDict)

\* the query_params of execute_intelligent_query and execute_enhanced_query
query_params(collection_name, text, k, with_filter, filter) ==
    << <<"collection_name", collection_name>>, <<"query", text>>, <<"k", k>>,
       <<"include_metadata", TRUE>> >>
    \o (IF with_filter THEN Entry("filter", filter) ELSE EmptyDict)

\* int(metadata.get(key, 0)) of _generate_insights raises
insights_int_raises(metadata, key) ==
    LET value == metadata[key] IN
    \/ value.kind = "null"
    \/ value.kind = "str" /\ ~int(value.s).some

\* LLMMetadataFilter._generate_llm_response raises: _generate_insights
\* converts both scores of every result
_generate_llm_response_raises(result_list) ==
    \E i \in 1..Len(result_list) :
        \/ insights_int_raises(result_list[i].metadata, "home_score")
        \/ insights_int_raises(result_list[i].metadata, "away_score")

\* the team _generate_filtered_response reads from the words of the query
RECURSIVE response_team(_, _)
response_team(words, query_lower) ==
    IF Len(words) = 0 THEN NoneValue
    ELSE LET word == words[1] IN
         IF word \in {"liverpool", "manchester", "united", "chelsea",
                      "arsenal", "city", "tottenham", "spurs"}
         THEN IF word = "manchester" /\ Contains(query_lower, "united")
              THEN Some("Manchester United")
              ELSE IF word = "manchester" /\ Contains(query_lower, "city")
              THEN Some("Manchester City")
              ELSE IF word = "tottenham" \/ word = "spurs"
              THEN Some("Tottenham Hotspur")
              ELSE Some(Title(word))
         ELSE response_team(Tail(words), query_lower)

MonthNames ==
    {"august", "september", "october", "november", "december", "january",
     "february", "march", "april", "may", "june", "july"}

is_date_range_query(query_lower) ==
    /\ AnyIn({"between", "from", "to", "date"}, query_lower)
    /\ AnyIn(MonthNames, query_lower)

is_win_loss_query(query_lower) ==
    /\ response_team(Split(query_lower), query_lower).some
    /\ AnyIn({"win", "loss", "lost", "won", "beat", "defeat"}, query_lower)

\* datetime.strptime(month, '%Y-%m') accepts the text
valid_year_month(month) ==
    /\ Len(month) \in {6, 7}
    /\ AllDigits(SubSeq(month, 1, 4))
    /\ Chr(month, 5) = "-"
    /\ AllDigits(SubSeq(month, 6, Len(month)))
    /\ DigitsValue(SubSeq(month, 6, Len(month))) \in 1..12

\* _analyze_date_range_query raises: a date that is set has a month,
\* date[:7], that strptime rejects
date_range_raises(result_list) ==
    \E i \in 1..Len(result_list) :
        LET date == result_list[i].metadata.date IN
        /\ date.kind = "str" /\ Len(date.s) > 0
        /\ ~valid_year_month(SubSeq(date.s, 1, IF Len(date.s) < 7 THEN Len(date.s) ELSE 7))

\* int(metadata.get(key, '?')) of the "All ... Games" list raises
all_games_int_raises(metadata, key) ==
    LET value == get(metadata, key, "?") IN
    value.kind = "null" \/ ~int(value.s).some

\* the "All ... Games" list converts both scores of every game of the team
all_games_raises(result_list, team) ==
    \E i \in 1..Len(result_list) :
        LET metadata == result_list[i].metadata IN
        /\ \/ get(metadata, "home_team", "Unknown") = Str(team)
           \/ get(metadata, "away_team", "Unknown") = Str(team)
        /\ \/ all_games_int_raises(metadata, "home_score")
           \/ all_games_int_raises(metadata, "away_score")

\* EnhancedLLMMetadataFilter._generate_filtered_response raises
_generate_filtered_response_raises(text, result_list) ==
    LET query_lower == Lower(text) IN
    IF Len(result_list) = 0 THEN FALSE
    ELSE IF is_date_range_query(query_lower) THEN date_range_raises(result_list)
    ELSE IF is_win_loss_query(query_lower)
    THEN IF Contains(query_lower, "loss") \/ Contains(query_lower, "lost")
         THEN FALSE
         ELSE IF \/ Contains(query_lower, "win") \/ Contains(query_lower, "won")
                 \/ Contains(query_lower, "beat")
         THEN FALSE
         ELSE all_games_raises(result_list,
                               response_team(Split(query_lower), query_lower).val)
    ELSE FALSE

(***************************************************************************)
(* EnhancedLLMMetadataFilter._analyze_date_range_query.  Of the text it    *)
(* returns the record keeps the number of games, the date-correction note, *)
(* the date range line and the games-per-month lines.                      *)
(***************************************************************************)
\* the characters of the date texts in code point order
CodePointOrder == " -/0123456789abcdefghijklmnopqrstuvwxyz"

\* ord(c), up to the order of the characters
ord(c) == CHOOSE i \in 1..Len(CodePointOrder) : Chr(CodePointOrder, i) = c

\* a <= b on str
RECURSIVE str_le(_, _)
str_le(a, b) ==
    IF Len(a) = 0 THEN TRUE
    ELSE IF Len(b) = 0 THEN FALSE
    ELSE IF Chr(a, 1) = Chr(b, 1) THEN str_le(Rest(a), Rest(b))
    ELSE ord(Chr(a, 1)) < ord(Chr(b, 1))

\* the sorted list with text put in
RECURSIVE insert_sorted(_, _)
insert_sorted(text, sorted_list) ==
    IF Len(sorted_list) = 0 THEN << text >>
    ELSE IF str_le(text, sorted_list[1]) THEN << text >> \o sorted_list
    ELSE << sorted_list[1] >> \o insert_sorted(text, Tail(sorted_list))

\* list.sort() / sorted(...) on a list of str
RECURSIVE sort(_)
sort(texts) ==
    IF Len(texts) = 0 THEN << >> ELSE insert_sorted(texts[1], sort(Tail(texts)))

\* [f for f in metadata_filter["$and"] if "date" in f]
RECURSIVE date_filters_of(_)
date_filters_of(children) ==
    IF Len(children) = 0 THEN << >>
    ELSE (IF HasKey(children[1], "date") THEN << children[1] >> ELSE << >>)
         \o date_filters_of(Tail(children))

\* the loop over date_filters: start_date from a filter with $gte, end_date
\* from a filter without $gte that has $lt; bounds is <<start_date, end_date>>
RECURSIVE range_bounds(_, _)
range_bounds(date_filters, bounds) ==
    IF Len(date_filters) = 0 THEN bounds
    ELSE LET date == Get(date_filters[1], "date") IN
         range_bounds(Tail(date_filters),
             IF HasKey(date, "$gte") THEN <<Some(Get(date, "$gte")), bounds[2]>>
             ELSE IF HasKey(date, "$lt") THEN <<bounds[1], Some(Get(date, "$lt"))>>
             ELSE bounds)

\* date_correction_note: NoneValue for "", else what the note names
date_correction_note(text, metadata_filter) ==
    IF ~(Contains(Lower(text), "date") /\ Contains(Lower(text), "between"))
    THEN NoneValue
    ELSE IF ~(Truthy(metadata_filter) /\ HasKey(metadata_filter, "$and"))
    THEN NoneValue
    ELSE LET date_filters == date_filters_of(Get(metadata_filter, "$and")) IN
         IF Len(date_filters) < 2 THEN NoneValue
         ELSE LET bounds == range_bounds(date_filters, <<NoneValue, NoneValue>>) IN
              IF ~(/\ bounds[1].some /\ Truthy(bounds[1].val)
                   /\ bounds[2].some /\ Truthy(bounds[2].val))
              THEN NoneValue
              ELSE LET corrected == _correct_date_range(bounds[1].val, bounds[2].val).ret.val
                   IN IF corrected[3]
                      THEN Some([given |-> <<bounds[1].val, bounds[2].val>>,
                                 corrected |-> <<corrected[1], corrected[2]>>])
                      ELSE NoneValue

\* [r.metadata.get('date', '') for r in results.results
\*  if r.metadata and r.metadata.get('date')]
RECURSIVE result_dates(_)
result_dates(result_list) ==
    IF Len(result_list) = 0 THEN << >>
    ELSE (LET date == result_list[1].metadata.date IN
          IF date.kind = "str" /\ Len(date.s) > 0 THEN << date.s >> ELSE << >>)
         \o result_dates(Tail(result_list))

\* date[:7]
month_of(date) == SubSeq(date, 1, IF Len(date) < 7 THEN Len(date) ELSE 7)

\* sorted(month_counts.keys()) with the counts
RECURSIVE month_counts(_, _)
month_counts(sorted_dates, counted) ==
    IF Len(sorted_dates) = 0 THEN counted
    ELSE LET month == month_of(sorted_dates[1])
             n     == Len(counted)
         IN IF n > 0 /\ counted[n][1] = month
            THEN month_counts(Tail(sorted_dates),
                     [counted EXCEPT ![n] = <<month, counted[n][2] + 1>>])
            ELSE month_counts(Tail(sorted_dates), Append(counted, <<month, 1>>))

_analyze_date_range_query(text, result_list, metadata_filter) ==
    LET dates == sort(result_dates(result_list)) IN
    IF date_range_raises(result_list) THEN Raised("ValueError")
    ELSE Returned([found |-> Len(result_list),
                   date_correction_note |-> date_correction_note(text, metadata_filter),
                   date_range |-> IF Len(dates) = 0 THEN NoneValue
                                  ELSE Some(<<dates[1], dates[Len(dates)]>>),
                   games_per_month |-> month_counts(dates, << >>)])

\* the date-correction note in the text of _generate_filtered_response: only
\* the date-range branch, taken for a non-empty result list, writes one
filtered_response_note(text, result_list, metadata_filter) ==
    IF Len(result_list) > 0 /\ is_date_range_query(Lower(text))
    THEN date_correction_note(text, metadata_filter)
    ELSE NoneValue

(***************************************************************************)
(* LLMMetadataFilter.execute_intelligent_query.  An execution is the       *)
(* record of what the method did: the extraction, the clause list and the  *)
(* filter it built, the request it sent if any, and what it returned.      *)
(***************************************************************************)
CollectionName == "Mo-schedules-test-csv"

ErrorResult(message) == [error |-> message]

\* an execution that ended with value before anything else was done
Refused(value) ==
    [extracted_filters |-> EmptyDict, filter_conditions |-> << >>,
     metadata_filter |-> EmptyDict, query_type |-> "", request |-> NoneValue,
     pattern_path |-> FALSE, ret |-> value]

\* an execution that sent its request, ending with value
Finished(done, value) ==
    [extracted_filters |-> done.extracted_filters,
     filter_conditions |-> done.filter_conditions,
     metadata_filter |-> done.metadata_filter, query_type |-> done.query_type,
     request |-> done.request, pattern_path |-> done.pattern_path,
     ret |-> value]

execute_intelligent_query(has_client, text, k, now, backend) ==
    IF ~has_client
    THEN Refused(ErrorResult("ZeroEntropy client not initialized"))
    ELSE LET extracted  == analyze_query_intent(text)
             conditions == collect_conditions(extracted, now)
             filter     == combine(conditions)
             params     == query_params(CollectionName, text, k, Truthy(filter), filter)
             done       == [extracted_filters |-> extracted,
                            filter_conditions |-> conditions,
                            metadata_filter |-> filter, query_type |-> "",
                            request |-> Some(params), pattern_path |-> TRUE]
         IN IF ~backend.ok \/ _generate_llm_response_raises(backend.results)
            THEN Finished(done, ErrorResult("Query execution failed"))
            ELSE Finished(done,
                     [query |-> text, extracted_filters |-> extracted,
                      metadata_filter |-> filter,
                      zeroentropy_results |-> backend.results,
                      total_results |-> Len(backend.results)])

(***************************************************************************)
(* EnhancedLLMMetadataFilter.interpret_query_with_gpt and                  *)
(* execute_enhanced_query.  The generative call ends in one of: no OpenAI  *)
(* client, an exception of the API call, a reply without a {...} part, a   *)
(* reply whose {...} part json.loads rejects, or a parsed JSON object.     *)
(***************************************************************************)
GptFailures == {"no_client", "api_error", "no_json", "invalid_json"}

GptFailed(kind) == [kind |-> kind, reply |-> EmptyDict]

GptParsed(reply) == [kind |-> "parsed", reply |-> reply]

\* the operation returned before it asked for an interpretation
GptNotAsked == [kind |-> "not_asked", reply |-> EmptyDict]

\* "today - timedelta(days=today.weekday() + 1)": a week from Sunday
current_week_start_from_sunday(today) == today - ((weekday(today) + 1) % 7)

current_week_start(today) == today - weekday(today)

\* date.replace(year=..., month=..., day=1) of the month after n's
month_after(n) ==
    LET d == ord2ymd(n) IN
    IF d.month = 12 THEN ymd2ord(d.year + 1, 1, 1)
    ELSE ymd2ord(d.year, d.month + 1, 1)

\* the date references interpret_query_with_gpt computes from today, as
\* ordinals
date_context(today) ==
    LET week_start          == current_week_start(today)
        month_start         == today - ord2ymd(today).day + 1
        days_until_saturday == (5 - weekday(today)) % 7
        weekend_start       == IF days_until_saturday = 0 THEN today
                               ELSE today + days_until_saturday
    IN [current_week_start  |-> week_start,
        current_week_end    |-> week_start + 6,
        next_week_start     |-> week_start + 7,
        next_week_end       |-> week_start + 7 + 6,
        last_week_start     |-> week_start - 7,
        last_week_end       |-> week_start - 7 + 6,
        current_month_start |-> month_start,
        next_month_start    |-> month_after(today),
        last_month_start    |-> (month_start - 1) - ord2ymd(month_start - 1).day + 1,
        next_month_end      |-> month_after(month_after(today)),
        this_weekend_start  |-> weekend_start,
        this_weekend_end    |-> weekend_start + 1,
        last_weekend_start  |-> weekend_start - 7,
        last_weekend_end    |-> weekend_start - 7 + 1,
        next_weekend_start  |-> weekend_start + 7,
        next_weekend_end    |-> weekend_start + 7 + 1]

interpret_query_with_gpt(gpt) ==
    IF gpt.kind = "no_client" THEN Entry("error", "OpenAI client not available")
    ELSE IF gpt.kind = "api_error" THEN Entry("error", "OpenAI API error")
    ELSE IF gpt.kind = "no_json"
    THEN Entry("error", "No valid JSON found in GPT response")
    ELSE IF gpt.kind = "invalid_json" THEN Entry("error", "Invalid JSON from GPT")
    ELSE gpt.reply

\* dict.get(key, default)
GetOr(d, key, default) == IF HasKey(d, key) THEN Get(d, key) ELSE default

\* execute_enhanced_query running the pattern extractor always and using
\* its filter also when the interpretation gave none
execute_enhanced_query_merging(has_client, text, k, gpt, backend) ==
    IF ~has_client
    THEN Refused(ErrorResult("ZeroEntropy client not initialized"))
    ELSE LET gpt_interpretation == interpret_query_with_gpt(gpt)
             failed     == HasKey(gpt_interpretation, "error")
             extracted  == _analyze_query_intent_fallback(text)
             conditions == collect_conditions_fallback(extracted)
             given      == GetOr(gpt_interpretation, "metadata_filter", EmptyDict)
             filter     == IF failed \/ ~Truthy(given) THEN combine(conditions)
                           ELSE given
             query_type == IF failed THEN "fallback"
                           ELSE GetOr(gpt_interpretation, "query_type", "semantic")
             params     == query_params(CollectionName, text, k,
                               Truthy(filter) /\ query_type = "filtered", filter)
             done       == [extracted_filters |-> extracted,
                            filter_conditions |-> conditions,
                            metadata_filter |-> filter, query_type |-> query_type,
                            request |-> Some(params), pattern_path |-> failed]
         IN IF \/ ~backend.ok
               \/ /\ query_type = "filtered"
                  /\ _generate_filtered_response_raises(text, backend.results)
            THEN Finished(done, ErrorResult("Enhanced query execution failed"))
            ELSE Finished(done,
                     [query |-> text, query_type |-> query_type,
                      metadata_filter |-> filter,
                      zeroentropy_results |-> backend.results,
                      response |->
                          [date_correction_note |->
                               IF query_type = "filtered"
                               THEN filtered_response_note(text, backend.results, filter)
                               ELSE NoneValue],
                      total_results |-> Len(backend.results),
                      gpt_interpretation |->
                          IF failed THEN NoneValue ELSE Some(gpt_interpretation)])

execute_enhanced_query(has_client, text, k, gpt, backend) ==
    IF ~has_client
    THEN Refused(ErrorResult("ZeroEntropy client not initialized"))
    ELSE LET gpt_interpretation == interpret_query_with_gpt(gpt)
             failed     == HasKey(gpt_interpretation, "error")
             extracted  == IF failed THEN _analyze_query_intent_fallback(text)
                           ELSE EmptyDict
             conditions == IF failed THEN collect_conditions_fallback(extracted)
                           ELSE << >>
             filter     == IF failed THEN combine(conditions)
                           ELSE GetOr(gpt_interpretation, "metadata_filter", EmptyDict)
             query_type == IF failed THEN "fallback"
                           ELSE GetOr(gpt_interpretation, "query_type", "semantic")
             params     == query_params(CollectionName, text, k,
                               Truthy(filter) /\ query_type = "filtered", filter)
             done       == [extracted_filters |-> extracted,
                            filter_conditions |-> conditions,
                            metadata_filter |-> filter, query_type |-> query_type,
                            request |-> Some(params), pattern_path |-> failed]
         IN IF \/ ~backend.ok
               \/ /\ query_type = "filtered"
                  /\ _generate_filtered_response_raises(text, backend.results)
            THEN Finished(done, ErrorResult("Enhanced query execution failed"))
            ELSE Finished(done,
                     [query |-> text, query_type |-> query_type,
                      metadata_filter |-> filter,
                      zeroentropy_results |-> backend.results,
                      response |->
                          [date_correction_note |->
                               IF query_type = "filtered"
                               THEN filtered_response_note(text, backend.results, filter)
                               ELSE NoneValue],
                      total_results |-> Len(backend.results),
                      gpt_interpretation |->
                          IF failed THEN NoneValue ELSE Some(gpt_interpretation)])

(***************************************************************************)
(* enhanced_streamlit_app: process_gpt5_query and format_gpt5_results.     *)
(* The text a call returns is a record of what the text says.  tries[i]    *)
(* is how the i-th search_documents call of the request ends.              *)
(***************************************************************************)
\* one of the texts returned before any search is made
Gpt5Message(message) ==
    [ret |-> Some([message |-> message]), raised |-> "", attempts |-> 0,
     request |-> NoneValue]

format_gpt5_results(search_results, text, interpretation, filters) ==
    LET items == IF HasKey(search_results, "results")
                 THEN Get(search_results, "results")
                 ELSE IF HasKey(search_results, "documents")
                 THEN Get(search_results, "documents")
                 ELSE << >>
    IN [query |-> text, interpretation |-> interpretation,
        total_results |-> Len(items), no_documents_found |-> Len(items) = 0,
        applied_filters |-> filters]

\* zeroentropy_api.search_documents(collection_name=..., query=prompt, k=50,
\* include_metadata=True[, filter_dict=...]) as the attempt-th search
gpt5_search(collection, prompt, filter_dict, tries, attempt) ==
    LET payload == search_documents_payload(collection, prompt, 50, filter_dict,
                       TRUE, NoneValue, "low")
        outcome == _make_request(payload, tries[attempt].http, tries[attempt].body)
    IN [ret |-> outcome.ret, raised |-> outcome.raised, attempts |-> attempt,
        request |-> Some(payload)]

\* "return format_gpt5_results(search_results, ...)" after a search
gpt5_formatted(searched, prompt, interpretation, filters) ==
    IF searched.raised # "" THEN searched
    ELSE [searched EXCEPT !.ret =
              Some(format_gpt5_results(searched.ret.val, prompt, interpretation, filters))]

\* the basic search of lines 90-96 and of the except branch, lines 179-188
gpt5_basic_search(collection, prompt, tries, attempt) ==
    gpt5_formatted(gpt5_search(collection, prompt, NoneValue, tries, attempt),
                   prompt, "Basic search (fallback)", NoneValue)

\* with a failed interpretation the call of analyze_query_and_create_filter,
\* which EnhancedLLMMetadataFilter does not define, raises AttributeError
\* before any search; "except Exception" then makes the basic search
process_gpt5_query(current_collection, openai_available, enhanced_filter_available, prompt, gpt, tries) ==
    IF ~Truthy(current_collection) THEN Gpt5Message("No collection selected")
    ELSE IF ~openai_available THEN Gpt5Message("OpenAI client not available")
    ELSE IF ~enhanced_filter_available
    THEN gpt5_basic_search(current_collection, prompt, tries, 1)
    ELSE LET gpt_interpretation == interpret_query_with_gpt(gpt) IN
         IF HasKey(gpt_interpretation, "error")
         THEN gpt5_basic_search(current_collection, prompt, tries, 1)
         ELSE LET metadata_filter == GetOr(gpt_interpretation, "metadata_filter", EmptyDict)
                  query_type == GetOr(gpt_interpretation, "query_type", "semantic")
                  intent     == GetOr(gpt_interpretation, "intent", "")
                  filtered   == Truthy(metadata_filter) /\ query_type = "filtered"
                  searched   == gpt5_search(current_collection, prompt,
                                    IF filtered THEN Some(metadata_filter) ELSE NoneValue,
                                    tries, 1)
              IN IF searched.raised # ""
                 THEN gpt5_basic_search(current_collection, prompt, tries, 2)
                 ELSE gpt5_formatted(searched, prompt, intent,
                          IF filtered THEN Some(metadata_filter) ELSE NoneValue)

(***************************************************************************)
(* Inputs of the operations.                                               *)
(***************************************************************************)
\* the non-empty lists over S of length at most n
NonEmptyLists(S, n) == UNION {[1..k -> S] : k \in 1..n}

\* a category of the extraction result: absent, or present with one of lists
OptEntry(key, lists) == {EmptyDict} \cup {Entry(key, l) : l \in lists}

TeamNames == {"liverpool", "man utd"}

VenueNames == {"anfield", "st james park"}

TeamLists == NonEmptyLists(TeamNames, MaxTeams)

VenueLists == NonEmptyLists(VenueNames, MaxVenues)

\* every surface form the date patterns 1 to 8 of the catalog can capture,
\* and one explicit date captured by the tenth
DateForms ==
    {"today", "tonight", "yesterday", "tomorrow", "this week", "this weekend",
     "last week", "last weekend", "next week", "next weekend",
     "august", "aug", "september", "sep", "2024-08-15"}

\* every surface form the score patterns 1 to 5 of the catalog can capture,
\* and one scoreline captured by the sixth
ScoreForms ==
    {"high scoring", "high score", "lots of goals", "low scoring", "low score",
     "few goals", "goalless", "no goals", "0-0", "draw", "tie", "win",
     "victory", "defeat", "loss", "2-1"}

DateLists == NonEmptyLists(DateForms, MaxDates)

ScoreLists == NonEmptyLists(ScoreForms, MaxScores)

\* the date and score lists tried together with the other categories
BuildDateLists == {<<"today">>, <<"this week">>, <<"last week">>,
                   <<"next week">>, <<"august">>}

BuildScoreLists == {<<"high scoring">>, <<"draw">>, <<"win">>}

StatusLists == {<<"completed">>, <<"completed", "scheduled">>}

LeagueLists == {<<"premier league", "fa cup">>}

\* extraction results in the key order analyze_query_intent inserts them
ExtractedInputs ==
    {a \o b \o c \o d \o e \o f :
        a \in OptEntry("teams", TeamLists),
        b \in OptEntry("venues", VenueLists),
        c \in OptEntry("dates", BuildDateLists),
        d \in OptEntry("scores", BuildScoreLists),
        e \in OptEntry("status", StatusLists),
        f \in OptEntry("leagues", LeagueLists)}

\* the lists _analyze_query_intent_fallback can build from the names: one
\* name per pattern that finds it, in the order of the patterns
FallbackLists(names, patterns, n) ==
    {l \in NonEmptyLists(names, n) :
        \E ks \in [1..Len(l) -> 1..Len(patterns)] :
            /\ \A i, j \in 1..Len(l) : i < j => ks[i] < ks[j]
            /\ \A i \in 1..Len(l) :
                  search(patterns[ks[i]], l[i]) = Some(l[i])}

FallbackExtractedInputs ==
    {a \o b :
        a \in OptEntry("teams", FallbackLists(TeamNames, team_patterns, MaxTeams)),
        b \in OptEntry("venues", FallbackLists(VenueNames, venue_patterns, MaxVenues))}

\* the sides of a game: the subject team at home, away, or not playing
Sides == { <<"Liverpool", "Arsenal">>, <<"Arsenal", "Liverpool">>,
           <<"Arsenal", "Chelsea">> }

\* score values of a record: numeric strings, a non-numeric string, the
\* empty string, null, no key
ScoreValues ==
    {Str("0"), Str("2"), Str("10"), Str("abc"), Str(""), FieldNull, FieldMissing}

Game(home, away, home_score, away_score) ==
    [home_team |-> Str(home), away_team |-> Str(away),
     home_score |-> home_score, away_score |-> away_score,
     date |-> Str("2024-08-17")]

Metadata ==
    {Game(side[1], side[2], hs, as) :
        side \in Sides, hs \in ScoreValues, as \in ScoreValues}

\* the records that are combined into longer lists: a home win, an away draw
\* and an away loss of the subject team, a game of two other teams, and a
\* record with a non-numeric score
CommonMetadata ==
    { Game("Liverpool", "Arsenal", Str("2"), Str("0")),
      Game("Arsenal", "Liverpool", Str("0"), Str("0")),
      Game("Arsenal", "Liverpool", Str("2"), Str("0")),
      Game("Arsenal", "Chelsea", Str("2"), Str("0")),
      Game("Liverpool", "Arsenal", Str("abc"), Str("0")) }

\* a result list over the given metadata; a result's path is its rank
ResultsOf(ms) == [i \in 1..Len(ms) |-> [path |-> i, metadata |-> ms[i]]]

\* every single record, and the lists of at most MaxResults common records
ResultLists ==
    {ResultsOf(<<m>>) : m \in Metadata}
        \cup UNION {{ResultsOf(ms) : ms \in [1..n -> CommonMetadata]} :
                       n \in 0..MaxResults}

SubjectTeams == {"Liverpool"}

\* the query texts
Queries ==
    {"hello", "Liverpool games", "man utd vs liverpool",
     "sheffield united at bramall lane", "arsenal at emirates stadium last week",
     "games in august", "high scoring games this weekend", "liverpool defeat",
     "completed premier league games", "old trafford and anfield",
     "chelsea 2-1 on 2024-08-15", "games on 3rd august", "did liverpool win",
     "games next week", "liverpool from august to september",
     "classic derby", "date between september 15 and august 3",
     "games between september 15 and august 3"}

\* what the search through the SDK client can give: an exception, or a list
\* of at most one record
BackendMetadata ==
    CommonMetadata \cup {Game("Liverpool", "Arsenal", FieldMissing, Str("0"))}

BackendOutcomes ==
    {BackendFailure, BackendResults(<< >>)}
        \cup {BackendResults(ResultsOf(<<m>>)) : m \in BackendMetadata}

\* JSON objects the generative model may reply with
GptReply(query_type, filter) ==
    << <<"intent", "games">>, <<"metadata_filter", filter>>,
       <<"explanation", "filter">>, <<"query_type", query_type>> >>

\* the filter of "between September 15 and August 3rd", not put in order
InvertedRange(upper) ==
    Entry("$and", << Leaf("date", "$gte", "2024-09-15"),
                     Leaf("date", upper, "2024-08-03") >>)

GptReplies ==
    { \* the grammar of the prompt is kept
      GptReply("filtered", Entry("$or", << Leaf("home_team", "$eq", "Liverpool"),
                                           Leaf("away_team", "$eq", "Liverpool") >>)),
      GptReply("filtered", Entry("$and", << Leaf("date", "$gte", "2024-08-01"),
                                            Leaf("date", "$lte", "2024-08-31") >>)),
      GptReply("semantic", EmptyDict),
      << <<"intent", "games">>, <<"query_type", "semantic">> >>,
      \* a filter without a query_type, a query_type without a filter
      << <<"intent", "games">>,
         <<"metadata_filter", Leaf("venue", "$eq", "Anfield")>> >>,
      GptReply("filtered", EmptyDict),
      \* the grammar of the prompt is broken: two operators in one leaf, a
      \* field outside the schema, an operator outside the operator set
      GptReply("filtered", Entry("date", << <<"$gte", "2024-08-01">>,
                                            <<"$lte", "2024-08-31">> >>)),
      GptReply("filtered", Leaf("team", "$eq", "Liverpool")),
      GptReply("filtered", Leaf("venue", "$regex", "anfield")),
      \* a date range given in reverse order, closed by $lt and by $lte
      GptReply("filtered", InvertedRange("$lt")),
      GptReply("filtered", InvertedRange("$lte")) }

GptOutcomes ==
    {GptFailed(kind) : kind \in GptFailures} \cup {GptParsed(r) : r \in GptReplies}

\* arguments of the ZeroEntropyAPI searches
FilterDicts ==
    {NoneValue, Some(EmptyDict), Some(Leaf("venue", "$eq", "Anfield")),
     Some(Entry("$and", << Leaf("date", "$gte", "2024-08-01"),
                           Leaf("date", "$lte", "2024-08-31") >>))}

Rerankers == {NoneValue, Some("zerank-1")}

VenueArgs == {NoneValue, Some(""), Some("Anfield")}

TeamArgs == {NoneValue, Some("Liverpool")}

DateArgs == {NoneValue, Some("2024-08-17")}

\* the JSON body of a successful search
ResponseBodies == {Entry("results", << >>), Entry("results", <<"doc1">>)}

\* the date field of a record: dates of two months, a text that is no date,
\* the empty text, null, no key
DateValues ==
    {Str("2024-08-17"), Str("2024-08-03"), Str("2024-09-15"), Str("abc"),
     Str(""), FieldNull, FieldMissing}

Dated(date) ==
    [Game("Liverpool", "Arsenal", Str("2"), Str("0")) EXCEPT !.date = date]

\* the result lists, the queries and the filters _analyze_date_range_query
\* is called with
DatedResultLists ==
    UNION {{ResultsOf(ms) : ms \in [1..n -> {Dated(d) : d \in DateValues}]} :
              n \in 0..MaxResults}

DateRangeQueries ==
    {"date between september 15 and august 3", "games from august to september"}

DateRangeFilters ==
    {EmptyDict, InvertedRange("$lt"), InvertedRange("$lte"),
     Entry("$and", << Leaf("date", "$gte", "2024-08-03"),
                      Leaf("date", "$lt", "2024-09-15") >>)}

\* st.session_state.current_collection: None, or the selected collection
CurrentCollections == {"", CollectionName}

\* how one search_documents call ends
SearchTries ==
    {[http |-> h, body |-> b] : h \in HttpOutcomes, b \in ResponseBodies}

\* the fields of an LLMMetadataFilter: the client and the pattern catalog
FilterObject == [client |-> "client", filter_patterns |-> filter_patterns]

\* the fields of an EnhancedLLMMetadataFilter built without an OpenAI key
EnhancedFilterObject ==
    [client |-> "client", openai_client |-> NoneValue,
     fallback_patterns |-> fallback_patterns]

\* the two filter objects the queries share
FilterObjects == [llm |-> FilterObject, enhanced |-> EnhancedFilterObject]

\* the collections of the backend, in the order get_collection_list gives
CollectionNames == <<"sports", "archive">>

MaxDeleteCalls == 2

\* the session before the first script run: the defaults of lines 596-627,
\* an empty page, every collection there, no delete_collection call made
NewSession ==
    [pc |-> "sidebar", clicked |-> "none",
     current_collection |-> NoneValue,
     show_delete_collection_confirm |-> FALSE,
     collection_selector |-> NoneValue,
     confirmation_shown |-> FALSE,
     collections |-> {CollectionNames[i] : i \in 1..Len(CollectionNames)},
     yes_clicks |-> 0,
     delete_calls |-> << >>]

\* the texts handed to _correct_date_range: dates, a date that is not
\* zero-padded, days the calendar does not have, and texts that are no dates
DateTexts ==
    {"2024-08-03", "2024-09-15", "2024-02-29", "2024-8-3", "2023-02-29",
     "2024-13-01", "15/09/2024", "next week", ""}

\* the dates datetime.now() may return
TodayFirst == ymd2ord(2024, 12, 26)

Days == TodayFirst..(TodayFirst + TodayDays - 1)

(***************************************************************************)
(* State: the operation that completed last, what it read and what it      *)
(* produced.  The filter objects keep nothing between two operations.      *)
(***************************************************************************)
VARIABLES
    op,                 \* the operation that completed last
    today,              \* datetime.now() as read by the operation
    extracted_filters,  \* the extraction result the operation worked on
    filter_conditions,  \* the clause list before "Combine all conditions"
    metadata_filter,    \* the filter the operation built or used
    results,            \* the result list the operation analysed or received
    team_name,          \* the subject team of the analysis
    query,              \* the query text of the operation
    gpt,                \* how the generative call of the operation ended
    query_type,         \* query_type of execute_enhanced_query
    pattern_path,       \* the pattern extractor and compiler were run
    request,            \* the search request the operation sent, if any
    attempts,           \* number of search calls the operation made
    search_outcome,     \* how the first search call ended, "none" without one
    context,            \* the date references of interpret_query_with_gpt
    start_date,         \* start_date of _correct_date_range
    end_date,           \* end_date of _correct_date_range
    filter_object,      \* the fields of the filter objects two queries share
    calls,              \* per query on the shared object: position and locals
    session_state,      \* st.session_state and the page of the Streamlit app
    ret,                \* the value the operation returned, if it returned
    raised              \* the exception the operation raised, "" if none

vars == <<op, today, extracted_filters, filter_conditions, metadata_filter,
          results, team_name, query, gpt, query_type, pattern_path, request,
          attempts, search_outcome, context, start_date, end_date,
          filter_object, calls, session_state, ret, raised>>

\* the variables of the shared filter object and of the Streamlit session,
\* which Spec leaves alone
aside_vars == <<filter_object, calls, session_state>>

\* the variables only the date operations set
date_vars == <<context, start_date, end_date>>

\* the variables only the query executions and searches set
exec_vars == <<query, gpt, query_type, pattern_path, request, attempts,
               search_outcome, raised>>

Init ==
    /\ op = "idle"
    /\ today = TodayFirst
    /\ extracted_filters = EmptyDict
    /\ filter_conditions = << >>
    /\ metadata_filter = EmptyDict
    /\ results = << >>
    /\ team_name = ""
    /\ query = ""
    /\ gpt = GptFailed("no_client")
    /\ query_type = ""
    /\ pattern_path = FALSE
    /\ request = NoneValue
    /\ attempts = 0
    /\ search_outcome = "none"
    /\ context = NoneValue
    /\ start_date = ""
    /\ end_date = ""
    /\ filter_object = FilterObjects
    /\ calls = << >>
    /\ session_state = NewSession
    /\ ret = NoneValue
    /\ raised = ""

BuildMetadataFilter ==
    /\ op = "idle"
    /\ \E ef \in ExtractedInputs :
        /\ op' = "build_metadata_filter"
        /\ today' = TodayFirst
        /\ extracted_filters' = ef
        /\ filter_conditions' = collect_conditions(ef, TodayFirst)
        /\ metadata_filter' = combine(filter_conditions')
        /\ ret' = Some(metadata_filter')
        /\ UNCHANGED <<results, team_name, exec_vars, date_vars, aside_vars>>

BuildMetadataFilterFallback ==
    /\ op = "idle"
    /\ \E ef \in FallbackExtractedInputs :
        /\ op' = "_build_metadata_filter_fallback"
        /\ today' = today
        /\ extracted_filters' = ef
        /\ filter_conditions' = collect_conditions_fallback(ef)
        /\ metadata_filter' = combine(filter_conditions')
        /\ ret' = Some(metadata_filter')
        /\ UNCHANGED <<results, team_name, exec_vars, date_vars, aside_vars>>

BuildDateFilter ==
    /\ op = "idle"
    /\ \E date_patterns \in DateLists, now \in Days :
        /\ op' = "_build_date_filter"
        /\ today' = now
        /\ extracted_filters' = Entry("dates", date_patterns)
        /\ ret' = _build_date_filter(date_patterns, now)
        /\ UNCHANGED <<filter_conditions, metadata_filter, results, team_name, exec_vars, date_vars, aside_vars>>

BuildScoreFilter ==
    /\ op = "idle"
    /\ \E score_patterns \in ScoreLists :
        /\ op' = "_build_score_filter"
        /\ extracted_filters' = Entry("scores", score_patterns)
        /\ ret' = _build_score_filter(score_patterns)
        /\ UNCHANGED <<today, filter_conditions, metadata_filter, results, team_name, exec_vars, date_vars, aside_vars>>

AnalyzeWinLossResults ==
    /\ op = "idle"
    /\ \E result_list \in ResultLists, team \in SubjectTeams :
        /\ op' = "_analyze_win_loss_results"
        /\ results' = result_list
        /\ team_name' = team
        /\ ret' = Some(_analyze_win_loss_results(result_list, team))
        /\ UNCHANGED <<today, extracted_filters, filter_conditions, metadata_filter, exec_vars, date_vars, aside_vars>>

AnalyzeDateRangeQuery ==
    /\ op = "idle"
    /\ \E text \in DateRangeQueries, result_list \in DatedResultLists,
          filter \in DateRangeFilters :
        LET outcome == _analyze_date_range_query(text, result_list, filter) IN
        /\ op' = "_analyze_date_range_query"
        /\ query' = text
        /\ results' = result_list
        /\ metadata_filter' = filter
        /\ ret' = outcome.ret
        /\ raised' = outcome.raised
        /\ UNCHANGED <<today, extracted_filters, filter_conditions, team_name,
                       gpt, query_type, pattern_path, request, attempts,
                       search_outcome, date_vars, aside_vars>>

CorrectDateRange ==
    /\ op = "idle"
    /\ \E start \in DateTexts, end \in DateTexts :
        LET outcome == _correct_date_range(start, end) IN
        /\ op' = "_correct_date_range"
        /\ start_date' = start
        /\ end_date' = end
        /\ ret' = outcome.ret
        /\ raised' = outcome.raised
        /\ UNCHANGED <<today, extracted_filters, filter_conditions,
                       metadata_filter, results, team_name, query, gpt,
                       query_type, pattern_path, request, attempts,
                       search_outcome, context, aside_vars>>

\* the variables an execution sets, from its record
Executed(e, backend) ==
    /\ extracted_filters' = e.extracted_filters
    /\ filter_conditions' = e.filter_conditions
    /\ metadata_filter' = e.metadata_filter
    /\ query_type' = e.query_type
    /\ pattern_path' = e.pattern_path
    /\ request' = e.request
    /\ attempts' = IF e.request.some THEN 1 ELSE 0
    /\ search_outcome' = IF ~e.request.some THEN "none"
                         ELSE IF backend.ok THEN "ok" ELSE "exception"
    /\ ret' = Some(e.ret)
    /\ raised' = ""
    /\ UNCHANGED <<date_vars, aside_vars>>

ExecuteIntelligentQuery ==
    /\ op = "idle"
    /\ \E has_client \in BOOLEAN, text \in Queries, backend \in BackendOutcomes :
        /\ has_client \/ backend = BackendFailure
        /\ op' = "execute_intelligent_query"
        /\ query' = text
        /\ results' = backend.results
        /\ Executed(execute_intelligent_query(has_client, text, 10, TodayFirst, backend), backend)
        /\ UNCHANGED <<today, team_name, gpt>>

ExecuteEnhancedQuery ==
    /\ op = "idle"
    /\ \E has_client \in BOOLEAN, text \in Queries, outcome \in GptOutcomes,
          backend \in BackendOutcomes :
        /\ has_client \/ (backend = BackendFailure /\ outcome = GptFailed("no_client"))
        /\ op' = "execute_enhanced_query"
        /\ query' = text
        /\ gpt' = outcome
        /\ results' = backend.results
        /\ Executed(execute_enhanced_query(has_client, text, 10, outcome, backend), backend)
        /\ UNCHANGED <<today, team_name>>

\* without an OpenAI client the method returns before it reads the clock
InterpretQueryWithGpt ==
    /\ op = "idle"
    /\ \E now \in Days, outcome \in GptOutcomes :
        /\ op' = "interpret_query_with_gpt"
        /\ today' = now
        /\ gpt' = outcome
        /\ context' = IF outcome.kind = "no_client" THEN NoneValue
                      ELSE Some(date_context(now))
        /\ ret' = Some(interpret_query_with_gpt(outcome))
        /\ UNCHANGED <<extracted_filters, filter_conditions, metadata_filter,
                       results, team_name, query, query_type, pattern_path,
                       request, attempts, search_outcome, start_date, end_date,
                       raised, aside_vars>>

\* EnhancedLLMMetadataFilter() is built without openai_api_key, so its
\* interpret_query_with_gpt ends with "OpenAI client not available"
ProcessGpt5Query ==
    /\ op = "idle"
    /\ \E current_collection \in CurrentCollections, openai_available \in BOOLEAN,
          enhanced_filter_available \in BOOLEAN, prompt \in Queries,
          first \in SearchTries, second \in SearchTries :
        LET outcome == process_gpt5_query(current_collection, openai_available,
                           enhanced_filter_available, prompt,
                           GptFailed("no_client"), <<first, second>>)
        IN /\ first.http = "ok" \/ first.body = Entry("results", << >>)
           /\ second = first
           /\ op' = "process_gpt5_query"
           /\ query' = prompt
           /\ gpt' = IF /\ Truthy(current_collection)
                         /\ openai_available
                         /\ enhanced_filter_available
                      THEN GptFailed("no_client") ELSE GptNotAsked
           /\ request' = outcome.request
           /\ attempts' = outcome.attempts
           /\ search_outcome' = IF outcome.attempts = 0 THEN "none" ELSE first.http
           /\ ret' = outcome.ret
           /\ raised' = outcome.raised
           /\ UNCHANGED <<today, extracted_filters, filter_conditions,
                          metadata_filter, results, team_name, query_type,
                          pattern_path, date_vars, aside_vars>>

SearchDocuments ==
    /\ op = "idle"
    /\ \E filter_dict \in FilterDicts, include_metadata \in BOOLEAN,
          reranker \in Rerankers, http \in HttpOutcomes, body \in ResponseBodies :
        LET payload == search_documents_payload(CollectionName, "games", 10,
                           filter_dict, include_metadata, reranker, "low")
            outcome == _make_request(payload, http, body)
        IN /\ http = "ok" \/ body = Entry("results", << >>)
           /\ op' = "search_documents"
           /\ metadata_filter' = IF filter_dict.some THEN filter_dict.val ELSE EmptyDict
           /\ request' = Some(payload)
           /\ attempts' = 1
           /\ search_outcome' = http
           /\ ret' = outcome.ret
           /\ raised' = outcome.raised
           /\ UNCHANGED <<today, extracted_filters, filter_conditions, results,
                          team_name, query, gpt, query_type, pattern_path,
                          date_vars, aside_vars>>

SearchSportsGames ==
    /\ op = "idle"
    /\ \E venue \in VenueArgs, team \in TeamArgs, date \in DateArgs,
          http \in HttpOutcomes, body \in ResponseBodies :
        LET filter_dict == sports_games_filter(venue, team, date)
            payload == search_documents_payload(CollectionName, "games", 10,
                           Some(filter_dict), TRUE, NoneValue, "low")
            outcome == _make_request(payload, http, body)
        IN /\ http = "ok" \/ body = Entry("results", << >>)
           /\ op' = "search_sports_games"
           /\ metadata_filter' = filter_dict
           /\ request' = Some(payload)
           /\ attempts' = 1
           /\ search_outcome' = http
           /\ ret' = outcome.ret
           /\ raised' = outcome.raised
           /\ UNCHANGED <<today, extracted_filters, filter_conditions, results,
                          team_name, query, gpt, query_type, pattern_path,
                          date_vars, aside_vars>>

\* the caller is done with the result: nothing of the operation is kept
Discard ==
    /\ op # "idle"
    /\ op' = "idle"
    /\ today' = TodayFirst
    /\ extracted_filters' = EmptyDict
    /\ filter_conditions' = << >>
    /\ metadata_filter' = EmptyDict
    /\ results' = << >>
    /\ team_name' = ""
    /\ query' = ""
    /\ gpt' = GptFailed("no_client")
    /\ query_type' = ""
    /\ pattern_path' = FALSE
    /\ request' = NoneValue
    /\ attempts' = 0
    /\ search_outcome' = "none"
    /\ context' = NoneValue
    /\ start_date' = ""
    /\ end_date' = ""
    /\ ret' = NoneValue
    /\ raised' = ""
    /\ UNCHANGED aside_vars

Next ==
    \/ BuildMetadataFilter
    \/ BuildMetadataFilterFallback
    \/ BuildDateFilter
    \/ BuildScoreFilter
    \/ AnalyzeWinLossResults
    \/ AnalyzeDateRangeQuery
    \/ CorrectDateRange
    \/ InterpretQueryWithGpt
    \/ ExecuteIntelligentQuery
    \/ ExecuteEnhancedQuery
    \/ ProcessGpt5Query
    \/ SearchDocuments
    \/ SearchSportsGames
    \/ Discard

Spec == Init /\ [][Next]_vars

(***************************************************************************)
(* Two queries on one filter object.  Each query calls, in this order,     *)
(* analyze_query_intent, then inside build_metadata_filter                 *)
(* _build_date_filter and _build_score_filter, then                        *)
(* _analyze_win_loss_results on its own result list; the calls of the two  *)
(* queries interleave in every way.  A call is modelled by what it leaves  *)
(* of the object and of its arguments and by the value it returns.         *)
(***************************************************************************)
Call(object, arguments, value) ==
    [object |-> object, arguments |-> arguments, ret |-> value]

\* analyze_query_intent taking the category it has read off the catalog
analyze_query_intent_call_consuming(object, text) ==
    Call([object EXCEPT !.filter_patterns = Tail(@)], <<text>>,
         pattern_filters_with(object.filter_patterns, Lower(text))
             \o complex_filters(Lower(text)))

analyze_query_intent_call(object, text) ==
    Call(object, <<text>>,
         pattern_filters_with(object.filter_patterns, Lower(text))
             \o complex_filters(Lower(text)))

_build_date_filter_call(object, date_patterns, now) ==
    Call(object, <<date_patterns>>, _build_date_filter(date_patterns, now))

_build_score_filter_call(object, score_patterns) ==
    Call(object, <<score_patterns>>, _build_score_filter(score_patterns))

build_metadata_filter_call(object, extracted, now) ==
    Call(object, <<extracted>>, build_metadata_filter(extracted, now))

_analyze_win_loss_results_call(object, result_list, team) ==
    Call(object, <<result_list, team>>, _analyze_win_loss_results(result_list, team))

Callers == 1..2

SharedQueries ==
    {"Liverpool games", "sheffield united at bramall lane",
     "high scoring games this weekend"}

SharedResultLists ==
    {ResultsOf(<<Game("Liverpool", "Arsenal", Str("2"), Str("0"))>>),
     ResultsOf(<<Game("Arsenal", "Liverpool", Str("2"), Str("0")),
                 Game("Liverpool", "Arsenal", Str("abc"), Str("0"))>>)}

\* what the query gets when it runs alone
Alone(given) ==
    LET extracted == analyze_query_intent(given.query) IN
    [extracted_filters |-> extracted,
     date_filter |-> IF HasKey(extracted, "dates")
                     THEN _build_date_filter(Get(extracted, "dates"), TodayFirst)
                     ELSE NoneValue,
     score_filter |-> IF HasKey(extracted, "scores")
                      THEN _build_score_filter(Get(extracted, "scores"))
                      ELSE NoneValue,
     metadata_filter |-> build_metadata_filter(extracted, TodayFirst),
     analysis |-> _analyze_win_loss_results(given.results, "Liverpool")]

\* a query before its first call; given keeps what the caller passed in and
\* alone what the query gets when nothing else uses the object
NewCall(text, result_list) ==
    [pc |-> "start", given |-> [query |-> text, results |-> result_list],
     alone |-> Alone([query |-> text, results |-> result_list]),
     query |-> text, results |-> result_list, team_name |-> "Liverpool",
     extracted_filters |-> NoneValue, date_filter |-> NoneValue,
     score_filter |-> NoneValue, metadata_filter |-> NoneValue,
     analysis |-> NoneValue]

InitShared ==
    /\ op = "idle"
    /\ today = TodayFirst
    /\ extracted_filters = EmptyDict
    /\ filter_conditions = << >>
    /\ metadata_filter = EmptyDict
    /\ results = << >>
    /\ team_name = ""
    /\ query = ""
    /\ gpt = GptFailed("no_client")
    /\ query_type = ""
    /\ pattern_path = FALSE
    /\ request = NoneValue
    /\ attempts = 0
    /\ search_outcome = "none"
    /\ context = NoneValue
    /\ start_date = ""
    /\ end_date = ""
    /\ ret = NoneValue
    /\ raised = ""
    /\ filter_object = FilterObjects
    /\ session_state = NewSession
    /\ calls \in [Callers -> {NewCall(text, result_list) :
                                  text \in SharedQueries,
                                  result_list \in SharedResultLists}]

\* the variables the queries on the shared object leave alone
single_vars ==
    <<op, today, extracted_filters, filter_conditions, metadata_filter, results,
      team_name, query, gpt, query_type, pattern_path, request, attempts,
      search_outcome, context, start_date, end_date, ret, raised>>

SharedAnalyzeQueryIntent(c) ==
    /\ calls[c].pc = "start"
    /\ \E done \in {analyze_query_intent_call(filter_object.llm, calls[c].query)} :
       /\ filter_object' = [filter_object EXCEPT !.llm = done.object]
       /\ calls' = [calls EXCEPT ![c] =
                       [@ EXCEPT !.pc = "extracted", !.query = done.arguments[1],
                                 !.extracted_filters = Some(done.ret)]]
    /\ UNCHANGED <<single_vars, session_state>>

\* "if 'dates' in extracted_filters:" guards the call
SharedBuildDateFilter(c) ==
    /\ calls[c].pc = "extracted"
    /\ LET extracted == calls[c].extracted_filters.val IN
       IF HasKey(extracted, "dates")
       THEN \E done \in {_build_date_filter_call(filter_object.llm,
                               Get(extracted, "dates"), today)} :
               /\ filter_object' = [filter_object EXCEPT !.llm = done.object]
               /\ calls' = [calls EXCEPT ![c] =
                               [@ EXCEPT !.pc = "dated", !.date_filter = done.ret]]
       ELSE /\ calls' = [calls EXCEPT ![c] = [@ EXCEPT !.pc = "dated"]]
            /\ UNCHANGED filter_object
    /\ UNCHANGED <<single_vars, session_state>>

\* "if 'scores' in extracted_filters:" guards the call
SharedBuildScoreFilter(c) ==
    /\ calls[c].pc = "dated"
    /\ LET extracted == calls[c].extracted_filters.val IN
       IF HasKey(extracted, "scores")
       THEN \E done \in {_build_score_filter_call(filter_object.llm,
                               Get(extracted, "scores"))} :
               /\ filter_object' = [filter_object EXCEPT !.llm = done.object]
               /\ calls' = [calls EXCEPT ![c] =
                               [@ EXCEPT !.pc = "scored", !.score_filter = done.ret]]
       ELSE /\ calls' = [calls EXCEPT ![c] = [@ EXCEPT !.pc = "scored"]]
            /\ UNCHANGED filter_object
    /\ UNCHANGED <<single_vars, session_state>>

SharedBuildMetadataFilter(c) ==
    /\ calls[c].pc = "scored"
    /\ \E done \in {build_metadata_filter_call(filter_object.llm,
                           calls[c].extracted_filters.val, today)} :
          /\ filter_object' = [filter_object EXCEPT !.llm = done.object]
          /\ calls' = [calls EXCEPT ![c] =
                          [@ EXCEPT !.pc = "built",
                                    !.extracted_filters = Some(done.arguments[1]),
                                    !.metadata_filter = Some(done.ret)]]
    /\ UNCHANGED <<single_vars, session_state>>

SharedAnalyzeWinLossResults(c) ==
    /\ calls[c].pc = "built"
    /\ \E done \in {_analyze_win_loss_results_call(filter_object.enhanced,
                           calls[c].results, calls[c].team_name)} :
          /\ filter_object' = [filter_object EXCEPT !.enhanced = done.object]
          /\ calls' = [calls EXCEPT ![c] =
                          [@ EXCEPT !.pc = "analysed",
                                    !.results = done.arguments[1],
                                    !.analysis = Some(done.ret)]]
    /\ UNCHANGED <<single_vars, session_state>>

NextShared ==
    \E c \in Callers :
        \/ SharedAnalyzeQueryIntent(c)
        \/ SharedBuildDateFilter(c)
        \/ SharedBuildScoreFilter(c)
        \/ SharedBuildMetadataFilter(c)
        \/ SharedAnalyzeWinLossResults(c)

SpecShared == InitShared /\ [][NextShared]_vars

(***************************************************************************)
(* The delete confirmation of enhanced_streamlit_app.  Streamlit runs the  *)
(* script from its first line whenever the user touches a widget or the    *)
(* script calls st.rerun(); a button returns True only in the run its      *)
(* click started, and only where that run renders it.  A run is cut into   *)
(* three steps at the calls to the backend (get_collection_list,           *)
(* get_collection_status), where it takes time and the user can already    *)
(* touch what the run has rendered; a touch stops the run and starts the   *)
(* next one.  pc is the step the run is at, "displayed" when it has ended. *)
(***************************************************************************)
\* how zeroentropy_api.delete_collection ends: a result without 'error', a
\* result with 'error', or an exception
DeleteOutcomes == {"ok", "error", "exception"}

\* the script starts again from its first line
Rerun(session, widget) == [session EXCEPT !.pc = "sidebar", !.clicked = widget]

\* the names get_collection_list returns
collection_names(session) ==
    SelectSeq(CollectionNames, LAMBDA name : name \in session.collections)

\* lines 655-692: the Delete Collection button and the confirmation
sidebar_delete(session, outcome) ==
    LET asked   == /\ session.clicked = "delete_collection_btn"
                   /\ session.current_collection.some
        flagged == [session EXCEPT !.show_delete_collection_confirm = @ \/ asked]
        shown   == /\ flagged.show_delete_collection_confirm
                   /\ flagged.current_collection.some
        page    == [flagged EXCEPT !.confirmation_shown = shown]
    IN IF ~shown THEN [page EXCEPT !.pc = "collections"]
       ELSE IF page.clicked = "confirm_delete_collection"
       THEN LET name   == page.current_collection.val
                called == [page EXCEPT !.delete_calls = Append(@, name)]
            IN IF outcome = "ok" /\ name \in page.collections
               THEN Rerun([called EXCEPT !.collections = @ \ {name},
                                         !.current_collection = NoneValue,
                                         !.show_delete_collection_confirm = FALSE],
                          "none")
               ELSE [called EXCEPT !.pc = "collections"]
       ELSE IF page.clicked = "cancel_delete_collection"
       THEN Rerun([page EXCEPT !.show_delete_collection_confirm = FALSE], "none")
       ELSE [page EXCEPT !.pc = "collections"]

\* lines 694-730: the selectbox keeps the user's choice while it is among
\* the names and shows the first name otherwise
select_collection(session) ==
    LET names == collection_names(session) IN
    IF Len(names) = 0 THEN [session EXCEPT !.pc = "main"]
    ELSE LET selected_collection ==
                 IF /\ session.collection_selector.some
                    /\ session.collection_selector.val \in session.collections
                 THEN session.collection_selector.val ELSE names[1]
             chosen == [session EXCEPT
                           !.collection_selector = Some(selected_collection)]
         IN IF Some(selected_collection) # session.current_collection
            THEN Rerun([chosen EXCEPT
                           !.current_collection = Some(selected_collection)],
                       "none")
            ELSE [chosen EXCEPT !.pc = "main"]

\* lines 947-949, before the main content is drawn
main_content(session) ==
    IF session.current_collection.some /\ session.show_delete_collection_confirm
    THEN Rerun([session EXCEPT !.show_delete_collection_confirm = FALSE], "none")
    ELSE [session EXCEPT !.pc = "displayed"]

RunSidebar ==
    /\ session_state.pc = "sidebar"
    /\ \E outcome \in DeleteOutcomes :
          session_state' = sidebar_delete(session_state, outcome)
    /\ UNCHANGED <<single_vars, filter_object, calls>>

RunCollectionSelector ==
    /\ session_state.pc = "collections"
    /\ session_state' = select_collection(session_state)
    /\ UNCHANGED <<single_vars, filter_object, calls>>

RunMainContent ==
    /\ session_state.pc = "main"
    /\ session_state' = main_content(session_state)
    /\ UNCHANGED <<single_vars, filter_object, calls>>

\* the button is on the page once the sidebar has been drawn
ClickDeleteCollection ==
    /\ session_state.pc # "sidebar"
    /\ session_state' = Rerun(session_state, "delete_collection_btn")
    /\ UNCHANGED <<single_vars, filter_object, calls>>

ClickConfirmDeleteCollection ==
    /\ session_state.confirmation_shown
    /\ session_state.yes_clicks < MaxDeleteCalls
    /\ session_state' = Rerun([session_state EXCEPT !.yes_clicks = @ + 1],
                              "confirm_delete_collection")
    /\ UNCHANGED <<single_vars, filter_object, calls>>

ClickCancelDeleteCollection ==
    /\ session_state.confirmation_shown
    /\ session_state' = Rerun(session_state, "cancel_delete_collection")
    /\ UNCHANGED <<single_vars, filter_object, calls>>

\* the user picks another name in the selectbox
ChooseCollection ==
    /\ session_state.pc # "sidebar"
    /\ \E name \in session_state.collections :
          /\ Some(name) # session_state.collection_selector
          /\ session_state' =
                Rerun([session_state EXCEPT !.collection_selector = Some(name)],
                      "none")
    /\ UNCHANGED <<single_vars, filter_object, calls>>

NextApp ==
    \/ RunSidebar
    \/ RunCollectionSelector
    \/ RunMainContent
    \/ ClickDeleteCollection
    \/ ClickConfirmDeleteCollection
    \/ ClickCancelDeleteCollection
    \/ ChooseCollection

SpecApp == Init /\ [][NextApp]_vars

(***************************************************************************)
(* Reading a filter tree.                                                  *)
(***************************************************************************)
IsConnective(key) == key \in {"$and", "$or"}

\* the <<field, operators>> entries of the tree, left to right, where
\* operators is the dict the field is mapped to
RECURSIVE Leaves(_)
Leaves(d) ==
    Flatten([i \in 1..Len(d) |->
                IF IsConnective(d[i][1])
                THEN Flatten([j \in 1..Len(d[i][2]) |-> Leaves(d[i][2][j])])
                ELSE << d[i] >>])

FieldsOf(d) == LET leaves == Leaves(d) IN {leaves[i][1] : i \in 1..Len(leaves)}

\* position of a clause in the order team, venue, date, score, status, league
Category(clause) ==
    LET fields == FieldsOf(clause) IN
    IF fields = {} THEN 0
    ELSE IF fields \subseteq {"home_team", "away_team"} THEN 1
    ELSE IF fields = {"venue"} THEN 2
    ELSE IF fields = {"date"} THEN 3
    ELSE IF fields \subseteq {"home_score", "away_score"} THEN 4
    ELSE IF fields = {"status"} THEN 5
    ELSE IF fields = {"league"} THEN 6
    ELSE 0

IsBuilder == op \in {"build_metadata_filter", "_build_metadata_filter_fallback"}

(***************************************************************************)
(* The filter grammar of the system prompt of interpret_query_with_gpt.    *)
(***************************************************************************)
Operators == {"$eq", "$ne", "$gt", "$gte", "$lt", "$lte", "$in", "$nin"}

SchemaFields ==
    {"home_team", "away_team", "venue", "date", "league", "status",
     "home_score", "away_score"}

\* every key of the tree is $and, $or, a field of the schema mapped to a
\* dict, or an operator inside such a dict
RECURSIVE UsesOnlyAllowed(_)
UsesOnlyAllowed(d) ==
    \A i \in 1..Len(d) :
        IF IsConnective(d[i][1])
        THEN \A j \in 1..Len(d[i][2]) : UsesOnlyAllowed(d[i][2][j])
        ELSE /\ d[i][1] \in SchemaFields
             /\ \A j \in 1..Len(d[i][2]) : d[i][2][j][1] \in Operators

OneOperatorPerLeaf(d) ==
    \A i \in 1..Len(Leaves(d)) : Len(Leaves(d)[i][2]) = 1

ConformsToGrammar(d) == UsesOnlyAllowed(d) /\ OneOperatorPerLeaf(d)

\* the operation sent a search request
IssuedSearch == request.some

SentFilter == HasKey(request.val, "filter")

(***************************************************************************)
(* C1.  When the generative interpretation of execute_enhanced_query       *)
(* fails (no OpenAI client, an exception of the API, a reply without JSON, *)
(* JSON that does not parse, or a filter that does not conform to the      *)
(* filter grammar), the pattern path is run instead, the result is tagged  *)
(* "fallback", and no interpretation error is returned.                    *)
(***************************************************************************)
InterpretationFailed ==
    \/ gpt.kind \in GptFailures
    \/ /\ gpt.kind = "parsed"
       /\ ~ConformsToGrammar(GetOr(gpt.reply, "metadata_filter", EmptyDict))

C1_FallbackOnFailure ==
    (op = "execute_enhanced_query" /\ IssuedSearch /\ InterpretationFailed)
    => /\ pattern_path
       /\ query_type = "fallback"
       /\ metadata_filter = combine(filter_conditions)
       /\ ConformsToGrammar(metadata_filter)

(***************************************************************************)
(* C2.  build_metadata_filter and _build_metadata_filter_fallback combine  *)
(* the clauses they produced, which stand in the order team, venue, date,  *)
(* score, status, league: no clause gives the empty filter, one clause is  *)
(* returned as it is, two or more become the children of one $and.         *)
(***************************************************************************)
C2_Combine ==
    IsBuilder =>
        /\ LET category == [i \in 1..Len(filter_conditions) |->
                                Category(filter_conditions[i])]
           IN \A i, j \in 1..Len(filter_conditions) :
                 i < j => 0 < category[i] /\ category[i] < category[j]
        /\ Len(filter_conditions) = 0 => ret.val = EmptyDict
        /\ Len(filter_conditions) = 1 => ret.val = filter_conditions[1]
        /\ Len(filter_conditions) >= 2 =>
              /\ Len(ret.val) = 1
              /\ ret.val[1][1] = "$and"
              /\ ret.val[1][2] = filter_conditions

\* a single venue clause was produced and returned unwrapped
C2_Witness ==
    /\ op = "build_metadata_filter"
    /\ Len(filter_conditions) = 1
    /\ ret.val = filter_conditions[1]
    /\ ret.val[1][1] = "venue"

(***************************************************************************)
(* C3.  Every leaf of a filter built by the pattern path maps its field to *)
(* exactly one operator: two bounds on the date are two leaves under $and, *)
(* never one leaf with both operators.                                     *)
(***************************************************************************)
C3_OneOperatorPerLeaf ==
    (op \in {"build_metadata_filter", "_build_date_filter", "_build_score_filter"}
        /\ ret.some)
    => \A i \in 1..Len(Leaves(ret.val)) : Len(Leaves(ret.val)[i][2]) = 1

(***************************************************************************)
(* C4.  A search issued by execute_intelligent_query,                      *)
(* execute_enhanced_query or search_documents (also when called by         *)
(* search_sports_games) carries no filter parameter when no filter was     *)
(* produced, and never carries the empty object as its filter.             *)
(***************************************************************************)
C4_NoEmptyFilterSent ==
    (op \in {"execute_intelligent_query", "execute_enhanced_query",
             "search_documents", "search_sports_games"} /\ IssuedSearch)
    => /\ metadata_filter = EmptyDict => ~SentFilter
       /\ SentFilter => Get(request.val, "filter") # EmptyDict

\* search_sports_games without venue, team and date handed {} to
\* search_documents, and the request went out without a filter
C4_Witness ==
    /\ op = "search_sports_games"
    /\ metadata_filter = EmptyDict
    /\ IssuedSearch
    /\ ~SentFilter

(***************************************************************************)
(* C5.  Every filter sent to the search backend is a tree that uses only   *)
(* the operator keys $eq, $ne, $gt, $gte, $lt, $lte, $in, $nin, $and, $or  *)
(* and only the field names of the metadata schema.                        *)
(***************************************************************************)
C5_AllowedKeysOnly ==
    (IssuedSearch /\ SentFilter) => UsesOnlyAllowed(Get(request.val, "filter"))

(***************************************************************************)
(* C6.  A non-empty list of extracted teams always yields the team clause: *)
(* one $or over the home_team and away_team equality leaves of every team, *)
(* on the title-cased name, in both builders.                              *)
(***************************************************************************)
C6_TeamClause ==
    (IsBuilder /\ HasKey(extracted_filters, "teams"))
    => LET teams == Get(extracted_filters, "teams") IN
       /\ Len(filter_conditions) >= 1
       /\ filter_conditions[1] =
             Entry("$or", Flatten([i \in 1..Len(teams) |->
                 << Leaf("home_team", "$eq", Title(teams[i])),
                    Leaf("away_team", "$eq", Title(teams[i])) >>]))

(***************************************************************************)
(* C7.  A non-empty list of extracted venues always yields exactly one     *)
(* leaf venue $in L, where L holds the title, lower, upper and capitalize  *)
(* forms of every venue and the per-word capitalisations of every          *)
(* multi-word venue, without duplicates.                                   *)
(***************************************************************************)
VenueLeaves == SelectSeq(filter_conditions, LAMBDA c : c[1][1] = "venue")

InList(x, xs) == \E i \in 1..Len(xs) : xs[i] = x

C7_VenueClause ==
    (IsBuilder /\ HasKey(extracted_filters, "venues"))
    => LET venues == Get(extracted_filters, "venues") IN
       /\ Len(VenueLeaves) = 1
       /\ Len(VenueLeaves[1][1][2]) = 1
       /\ VenueLeaves[1][1][2][1][1] = "$in"
       /\ LET L == VenueLeaves[1][1][2][1][2] IN
          /\ \A i, j \in 1..Len(L) : i # j => L[i] # L[j]
          /\ \A k \in 1..Len(venues) :
                /\ InList(Title(venues[k]), L)
                /\ InList(Lower(venues[k]), L)
                /\ InList(Upper(venues[k]), L)
                /\ InList(Capitalize(venues[k]), L)
                /\ \A w \in 1..Len(partial_variations(venues[k])) :
                      InList(partial_variations(venues[k])[w], L)

(***************************************************************************)
(* C8.  _build_date_filter compiles every symbolic period the date         *)
(* patterns capture (this/last/next week and weekend, a month name) into   *)
(* an $and of two date leaves, $gte start and $lte or $lt end, with start  *)
(* not after end.                                                          *)
(***************************************************************************)
SymbolicPeriods ==
    {"this week", "this weekend", "last week", "last weekend", "next week",
     "next weekend", "august", "aug", "september", "sep"}

\* order of the characters of a %Y-%m-%d text
DateChars == "-0123456789"

CharRank(c) == CHOOSE i \in 1..Len(DateChars) : Chr(DateChars, i) = c

\* a <= b for two %Y-%m-%d texts, as str compares
RECURSIVE StrLE(_, _)
StrLE(a, b) ==
    IF Len(a) = 0 THEN TRUE
    ELSE IF Len(b) = 0 THEN FALSE
    ELSE IF Chr(a, 1) = Chr(b, 1) THEN StrLE(Rest(a), Rest(b))
    ELSE CharRank(Chr(a, 1)) < CharRank(Chr(b, 1))

IsDateLeaf(leaf, operators) ==
    /\ Len(leaf) = 1
    /\ leaf[1][1] = "date"
    /\ Len(leaf[1][2]) = 1
    /\ leaf[1][2][1][1] \in operators

IsDateRange(filter) ==
    /\ Len(filter) = 1
    /\ filter[1][1] = "$and"
    /\ Len(filter[1][2]) = 2
    /\ IsDateLeaf(filter[1][2][1], {"$gte"})
    /\ IsDateLeaf(filter[1][2][2], {"$lte", "$lt"})
    /\ StrLE(filter[1][2][1][1][2][1][2], filter[1][2][2][1][2][1][2])

OnePeriod(periods) ==
    /\ op = "_build_date_filter"
    /\ Len(Get(extracted_filters, "dates")) = 1
    /\ Get(extracted_filters, "dates")[1] \in periods

C8_PeriodIsDateRange ==
    OnePeriod(SymbolicPeriods) => ret.some /\ IsDateRange(ret.val)

(***************************************************************************)
(* C9.  The date filter of a month is $and[date $gte first-of-month, date  *)
(* $lte last-of-month] of that month in the year of the query, the last    *)
(* day being 28, 29, 30 or 31 as the calendar has it.                      *)
(***************************************************************************)
MonthNumber(name) == IF name \in {"august", "aug"} THEN 8 ELSE 9

MonthRange(year, month) ==
    Entry("$and",
          << Leaf("date", "$gte", strftime(ymd2ord(year, month, 1))),
             Leaf("date", "$lte",
                  strftime(ymd2ord(year, month, days_in_month(year, month)))) >>)

C9_MonthFilter ==
    OnePeriod({"august", "aug", "september", "sep"})
    => ret = Some(MonthRange(ord2ymd(today).year,
                             MonthNumber(Get(extracted_filters, "dates")[1])))

(***************************************************************************)
(* C10.  _analyze_win_loss_results puts a record of the subject team with  *)
(* two scores that parse as integers in wins when the team's score is      *)
(* greater than the opponent's, in losses when it is smaller, in draws     *)
(* when they are equal, and a record of two other teams in none of them.   *)
(***************************************************************************)
ScoreParses(value) == value.kind = "str" /\ int(value.s).some

C10_WinLossClassification ==
    op = "_analyze_win_loss_results" =>
        \A i \in 1..Len(results) :
            LET result  == results[i]
                m       == result.metadata
                is_home == m.home_team = Str(team_name)
                is_away == m.away_team = Str(team_name)
            IN /\ (is_home \/ is_away) /\ ScoreParses(m.home_score)
                  /\ ScoreParses(m.away_score)
                  => LET home == int(m.home_score.s).val
                         away == int(m.away_score.s).val
                         own  == IF is_home THEN home ELSE away
                         opp  == IF is_home THEN away ELSE home
                     IN /\ InList(result, ret.val.wins) <=> own > opp
                        /\ InList(result, ret.val.losses) <=> own < opp
                        /\ InList(result, ret.val.draws) <=> own = opp
               /\ (~is_home /\ ~is_away)
                  => /\ ~InList(result, ret.val.wins)
                     /\ ~InList(result, ret.val.losses)
                     /\ ~InList(result, ret.val.draws)

\* a home win and an away draw of the subject team were analysed
C10_Witness ==
    /\ op = "_analyze_win_loss_results"
    /\ Len(results) = 2
    /\ results[1].metadata.home_team = Str(team_name)
    /\ results[2].metadata.away_team = Str(team_name)
    /\ ret.val.win_count = 1
    /\ ret.val.draw_count = 1
    /\ ret.val.loss_count = 0

(***************************************************************************)
(* C11.  _analyze_win_loss_results leaves out of wins, losses and draws,   *)
(* and so out of their counts, every record in which a score is missing    *)
(* (no key, null or empty) or not a number, and does not raise.            *)
(***************************************************************************)
ScoreUnusable(value) ==
    \/ value.kind \in {"missing", "null"}
    \/ value.kind = "str" /\ ~int(value.s).some

C11_UnusableScoreExcluded ==
    op = "_analyze_win_loss_results" =>
        /\ raised = ""
        /\ ret.some
        /\ \A i \in 1..Len(results) :
              (\/ ScoreUnusable(results[i].metadata.home_score)
               \/ ScoreUnusable(results[i].metadata.away_score))
              => /\ ~InList(results[i], ret.val.wins)
                 /\ ~InList(results[i], ret.val.losses)
                 /\ ~InList(results[i], ret.val.draws)


(***************************************************************************)
(* C12.  _correct_date_range on two valid ISO dates returns (end, start,   *)
(* true) when start is after end and (start, end, false) otherwise, also   *)
(* when they are equal; the returned pair is in chronological order and    *)
(* is returned unchanged with false when the operation is applied to it;   *)
(* on a text that is no date nothing is raised.                            *)
(***************************************************************************)
\* a zero-padded YYYY-MM-DD text of a day of the calendar
ValidIso(text) == Len(text) = 10 /\ strptime(text).some

\* start is chronologically after end, for two valid ISO dates
After(start, end) == ~StrLE(start, end)

C12_CorrectDateRange ==
    op = "_correct_date_range" =>
        /\ raised = ""
        /\ ret.some
        /\ (ValidIso(start_date) /\ ValidIso(end_date)) =>
              /\ After(start_date, end_date)
                    => ret.val = <<end_date, start_date, TRUE>>
              /\ ~After(start_date, end_date)
                    => ret.val = <<start_date, end_date, FALSE>>
              /\ ~After(ret.val[1], ret.val[2])
              /\ _correct_date_range(ret.val[1], ret.val[2]) =
                    Returned(<<ret.val[1], ret.val[2], FALSE>>)

\* a range given in reverse order was swapped
C12_Witness ==
    /\ op = "_correct_date_range"
    /\ start_date = "2024-09-15"
    /\ end_date = "2024-08-03"
    /\ ret = Some(<<"2024-08-03", "2024-09-15", TRUE>>)

(***************************************************************************)
(* C13.  When the backend search of execute_intelligent_query,             *)
(* execute_enhanced_query or process_gpt5_query fails, the request ends    *)
(* with an error result returned to the caller and the search is made      *)
(* once only: a failed search is never reported as a successful response   *)
(* with zero results.                                                      *)
(***************************************************************************)
QueryOperations ==
    {"execute_intelligent_query", "execute_enhanced_query", "process_gpt5_query"}

\* the search of the request was made and did not succeed
SearchFailed == attempts >= 1 /\ search_outcome # "ok"

\* the value is an error dict, or a text that reports an error
IsErrorResult(value) == "error" \in DOMAIN value \/ "message" \in DOMAIN value

C13_FailedSearchIsError ==
    (op \in QueryOperations /\ SearchFailed) =>
        /\ attempts = 1
        /\ raised = ""
        /\ ret.some
        /\ IsErrorResult(ret.val)

(***************************************************************************)
(* C14.  For a query that matches no pattern of the catalog,               *)
(* analyze_query_intent returns an extraction without any category,        *)
(* build_metadata_filter returns the empty filter, and                     *)
(* execute_intelligent_query makes the search without a filter; when the   *)
(* search succeeds nothing is raised and no error is returned.             *)
(***************************************************************************)
\* queries none of the filter_patterns match
NoMatchQueries == {"hello", "classic derby"}

CatalogCategories == {"teams", "venues", "dates", "scores", "status", "leagues"}

C14_NoMatchUnfiltered ==
    (/\ op = "execute_intelligent_query"
     /\ query \in NoMatchQueries
     /\ attempts = 1
     /\ search_outcome = "ok") =>
        /\ \A category \in CatalogCategories : ~HasKey(extracted_filters, category)
        /\ metadata_filter = EmptyDict
        /\ ~SentFilter
        /\ raised = ""
        /\ ret.some
        /\ ~IsErrorResult(ret.val)

HighScoringForms == {"high scoring", "high score", "lots of goals"}

LowScoringForms == {"low scoring", "low score", "few goals"}

GoallessForms == {"goalless", "no goals", "0-0"}

ScoreClause(connective, operator, value) ==
    Entry(connective, << Leaf("home_score", operator, value),
                         Leaf("away_score", operator, value) >>)

C16_ScoreClauses ==
    op = "_build_score_filter" =>
        LET form == Get(extracted_filters, "scores")[1] IN
        /\ form \in HighScoringForms => ret = Some(ScoreClause("$or", "$gte", "3"))
        /\ form \in LowScoringForms => ret = Some(ScoreClause("$and", "$lte", "1"))
        /\ form \in GoallessForms => ret = Some(ScoreClause("$and", "$eq", "0"))

(***************************************************************************)
(* C17.  A single-day expression (today, tonight, yesterday, tomorrow, an  *)
(* explicit YYYY-MM-DD date) compiles through _build_date_filter to        *)
(* exactly one leaf, date $eq the ISO string of that day.                  *)
(***************************************************************************)
\* the day a single-day expression names, as an ISO string
SingleDay(expression, now) ==
    IF expression \in {"today", "tonight"} THEN strftime(now)
    ELSE IF expression = "yesterday" THEN strftime(now - 1)
    ELSE IF expression = "tomorrow" THEN strftime(now + 1)
    ELSE expression

SingleDayForms == {"today", "tonight", "yesterday", "tomorrow", "2024-08-15"}

C17_SingleDayLeaf ==
    op = "_build_date_filter" =>
        LET expression == Get(extracted_filters, "dates")[1] IN
        expression \in SingleDayForms =>
            ret = Some(Leaf("date", "$eq", SingleDay(expression, today)))

(***************************************************************************)
(* C18.  For every reference date now, "this weekend" of the date context  *)
(* is the Saturday and Sunday of the Monday-to-Sunday week that contains   *)
(* now (starting today when now is a Saturday), and "last weekend" and     *)
(* "next weekend" are the Saturday and Sunday of the week before and the   *)
(* week after, each inside the last-week and the next-week range.          *)
(***************************************************************************)
\* the Monday of the Monday-to-Sunday week that contains day
MondayOf(day) == CHOOSE monday \in (day - 6)..day : weekday(monday) = 0

\* start and end are the Saturday and Sunday of the week of Monday monday
IsWeekendOf(start, end, monday) == start = monday + 5 /\ end = monday + 6

C18_Weekends ==
    (op = "interpret_query_with_gpt" /\ context.some) =>
        LET c == context.val IN
        /\ IsWeekendOf(c.this_weekend_start, c.this_weekend_end, MondayOf(today))
        /\ weekday(today) = 5 => c.this_weekend_start = today
        /\ IsWeekendOf(c.last_weekend_start, c.last_weekend_end, MondayOf(today) - 7)
        /\ IsWeekendOf(c.next_weekend_start, c.next_weekend_end, MondayOf(today) + 7)
        /\ c.last_week_start <= c.last_weekend_start
        /\ c.last_weekend_end <= c.last_week_end
        /\ c.next_week_start <= c.next_weekend_start
        /\ c.next_weekend_end <= c.next_week_end

(***************************************************************************)
(* C19.  For every reference date now, the computed current week starts    *)
(* on the most recent Monday on or before now and ends 6 days later, so    *)
(* now lies inside it; the last week and the next week are that range      *)
(* shifted by exactly 7 days back and forward, and the three ranges are    *)
(* adjacent and do not overlap.  The week starts of _build_date_filter     *)
(* are the same days.                                                      *)
(***************************************************************************)
C19_Weeks ==
    /\ (op = "interpret_query_with_gpt" /\ context.some) =>
          LET c == context.val IN
          /\ weekday(c.current_week_start) = 0
          /\ c.current_week_start <= today
          /\ today - c.current_week_start < 7
          /\ c.current_week_end = c.current_week_start + 6
          /\ today <= c.current_week_end
          /\ c.last_week_start = c.current_week_start - 7
          /\ c.last_week_end = c.current_week_end - 7
          /\ c.next_week_start = c.current_week_start + 7
          /\ c.next_week_end = c.current_week_end + 7
          /\ c.last_week_end + 1 = c.current_week_start
          /\ c.current_week_end + 1 = c.next_week_start
    /\ op = "_build_date_filter" =>
          LET expression == Get(extracted_filters, "dates")[1] IN
          /\ expression = "this week" =>
                ret = Some(Leaf("date", "$gte", strftime(MondayOf(today))))
          /\ expression = "last week" =>
                ret = Some(Entry("$and",
                          << Leaf("date", "$gte", strftime(MondayOf(today) - 7)),
                             Leaf("date", "$lte", strftime(MondayOf(today) - 1)) >>))

\* on a Sunday the current week began six days before
C19_Witness ==
    /\ op = "interpret_query_with_gpt"
    /\ context.some
    /\ weekday(today) = 6
    /\ context.val.current_week_start = today - 6
    /\ context.val.next_week_start = today + 1

(***************************************************************************)
(* C20.  A retrieved record whose score is missing or non-numeric never    *)
(* makes a query fail: whatever the query, execute_intelligent_query and   *)
(* execute_enhanced_query return a normal response, not an error result,   *)
(* when the search succeeded with such a record among the results.         *)
(***************************************************************************)
HasUnusableScore ==
    \E i \in 1..Len(results) :
        \/ ScoreUnusable(results[i].metadata.home_score)
        \/ ScoreUnusable(results[i].metadata.away_score)

C20_UnusableScoreNoFailure ==
    (/\ op \in {"execute_intelligent_query", "execute_enhanced_query"}
     /\ attempts = 1
     /\ search_outcome = "ok"
     /\ HasUnusableScore) =>
        /\ raised = ""
        /\ ret.some
        /\ ~IsErrorResult(ret.val)

(***************************************************************************)
(* C21.  Whenever the date range of the applied filter has its lower       *)
(* bound chronologically after its upper bound, the upper bound given by   *)
(* $lt or by $lte, the request of execute_enhanced_query does not fail     *)
(* and the response carries the date-correction note with the bounds in    *)
(* chronological order.                                                    *)
(***************************************************************************)
\* the filter is $and of date $gte lower and date $lt/$lte upper with the
\* lower bound after the upper bound
HasInvertedRange(filter) ==
    /\ Len(filter) = 1
    /\ filter[1][1] = "$and"
    /\ Len(filter[1][2]) = 2
    /\ IsDateLeaf(filter[1][2][1], {"$gte"})
    /\ IsDateLeaf(filter[1][2][2], {"$lte", "$lt"})
    /\ ~StrLE(filter[1][2][1][1][2][1][2], filter[1][2][2][1][2][1][2])

C21_InvertedRangeNoted ==
    (/\ op = "execute_enhanced_query"
     /\ IssuedSearch
     /\ search_outcome = "ok"
     /\ SentFilter
     /\ HasInvertedRange(Get(request.val, "filter"))) =>
        /\ ~IsErrorResult(ret.val)
        /\ ret.val.response.date_correction_note.some
        /\ LET note == ret.val.response.date_correction_note.val IN
           /\ StrLE(note.corrected[1], note.corrected[2])
           /\ note.corrected = <<note.given[2], note.given[1]>>

(***************************************************************************)
(* C25.  _analyze_date_range_query buckets the dates of the records by     *)
(* calendar month (YYYY-MM): the counts of the months sum to the number    *)
(* of records that have a valid date, the months stand in ascending        *)
(* chronological order, and a record whose date is missing or is not a     *)
(* valid date does not make the analysis fail.                             *)
(***************************************************************************)
\* the record has a %Y-%m-%d date
HasValidDate(result) ==
    /\ result.metadata.date.kind = "str"
    /\ ValidIso(result.metadata.date.s)

RECURSIVE SumOfCounts(_)
SumOfCounts(months) ==
    IF Len(months) = 0 THEN 0 ELSE months[1][2] + SumOfCounts(Tail(months))

C25_MonthBuckets ==
    op = "_analyze_date_range_query" =>
        /\ raised = ""
        /\ ret.some
        /\ LET months == ret.val.games_per_month IN
           /\ SumOfCounts(months) =
                  Cardinality({i \in 1..Len(results) : HasValidDate(results[i])})
           /\ \A i \in 1..Len(months) : \A j \in 1..Len(months) :
                  i < j => (months[i][1] # months[j][1]
                            /\ StrLE(months[i][1], months[j][1]))

(***************************************************************************)
(* C22.  analyze_query_intent, build_metadata_filter, _build_date_filter,  *)
(* _build_score_filter and _analyze_win_loss_results leave the pattern     *)
(* catalog, the other fields of the filter object and their arguments      *)
(* unchanged, so under every interleaving of two queries on one filter     *)
(* object each query gets the extraction, the filter and the analysis it   *)
(* gets when it runs alone.                                                *)
(***************************************************************************)
\* the positions of a query, in order
Positions == <<"start", "extracted", "dated", "scored", "built", "analysed">>

\* the query has reached the position
Reached(call, position) ==
    \E i \in 1..Len(Positions), j \in 1..Len(Positions) :
        /\ Positions[i] = position
        /\ Positions[j] = call.pc
        /\ i <= j

SameWords(a, b) == Contains(a, b) \/ Contains(b, a)

\* the values the extraction reports under the key
ReportedFor(extracted, key) ==
    IF HasKey(extracted, key) THEN Get(extracted, key) ELSE << >>

C23_FirstEntryOnly ==
    (/\ op \in {"execute_intelligent_query", "execute_enhanced_query"}
     /\ pattern_path)
    => \A key \in {"teams", "venues"} :
          LET reported == ReportedFor(extracted_filters, key) IN
          \A i \in 1..Len(reported), j \in 1..Len(reported) :
              i < j => ~SameWords(reported[i], reported[j])

(***************************************************************************)
(* C24.  No filter returned by build_metadata_filter or by                 *)
(* _build_metadata_filter_fallback has, at any depth, an $and or $or node  *)
(* with an empty list of children; when nothing is to be filtered the      *)
(* result is the empty filter itself.                                      *)
(***************************************************************************)
\* no $and or $or of the tree has an empty list of children
RECURSIVE NoEmptyConnective(_)
NoEmptyConnective(d) ==
    \A i \in 1..Len(d) :
        IsConnective(d[i][1]) =>
            /\ Len(d[i][2]) > 0
            /\ \A j \in 1..Len(d[i][2]) : NoEmptyConnective(d[i][2][j])

C24_NoEmptyConnective ==
    /\ IsBuilder =>
          /\ NoEmptyConnective(ret.val)
          /\ Len(filter_conditions) = 0 => ret.val = EmptyDict
    /\ (op \in {"execute_intelligent_query", "execute_enhanced_query"}
           /\ pattern_path)
       => /\ NoEmptyConnective(metadata_filter)
          /\ Len(filter_conditions) = 0 => metadata_filter = EmptyDict

\* the fallback got two teams and a venue: the teams give no clause and
\* the venue clause is the whole filter
C24_Witness ==
    /\ op = "_build_metadata_filter_fallback"
    /\ HasKey(extracted_filters, "teams")
    /\ Len(Get(extracted_filters, "teams")) > 1
    /\ HasKey(extracted_filters, "venues")
    /\ Len(filter_conditions) = 1
    /\ ret.val # EmptyDict

(***************************************************************************)
(* C26.  The analysis _analyze_win_loss_results returns is consistent:     *)
(* wins, losses and draws are made of input records and no record is in    *)
(* two of them, the three counts are the lengths of the lists, their sum   *)
(* is at most total_games, and when no record has two scores that parse    *)
(* the counts are 0 and the lists empty.                                   *)
(***************************************************************************)
\* the lists are selections of the input and pairwise disjoint, and the
\* counts are their lengths
CountsConsistent(analysis, result_list) ==
    /\ \A name \in {"wins", "losses", "draws"} :
          \A i \in 1..Len(analysis[name]) : InList(analysis[name][i], result_list)
    /\ \A i \in 1..Len(result_list) :
          /\ ~(InList(result_list[i], analysis.wins)
                /\ InList(result_list[i], analysis.losses))
          /\ ~(InList(result_list[i], analysis.wins)
                /\ InList(result_list[i], analysis.draws))
          /\ ~(InList(result_list[i], analysis.losses)
                /\ InList(result_list[i], analysis.draws))
    /\ analysis.win_count = Len(analysis.wins)
    /\ analysis.loss_count = Len(analysis.losses)
    /\ analysis.draw_count = Len(analysis.draws)
    /\ analysis.total_games = Len(result_list)
    /\ analysis.win_count + analysis.loss_count + analysis.draw_count
          <= analysis.total_games

\* no record of the list has two scores that parse as integers
NoParseableScores(result_list) ==
    \A i \in 1..Len(result_list) :
        ~(/\ ScoreParses(result_list[i].metadata.home_score)
          /\ ScoreParses(result_list[i].metadata.away_score))

C26_ConsistentAnalysis ==
    op = "_analyze_win_loss_results" =>
        /\ raised = ""
        /\ CountsConsistent(ret.val, results)
        /\ NoParseableScores(results) =>
              /\ ret.val.win_count = 0
              /\ ret.val.loss_count = 0
              /\ ret.val.draw_count = 0
              /\ ret.val.wins = << >>
              /\ ret.val.losses = << >>
              /\ ret.val.draws = << >>

C28_FallbackFilterApplied ==
    (op = "process_gpt5_query" /\ gpt.kind \in GptFailures) =>
        LET filter == _build_metadata_filter_fallback(
                          _analyze_query_intent_fallback(query))
        IN /\ IssuedSearch
           /\ filter # EmptyDict =>
                 /\ SentFilter
                 /\ Get(request.val, "filter") = filter
           /\ filter = EmptyDict => ~SentFilter

(***************************************************************************)
(* C29.  After the user clicks Delete Collection with a collection         *)
(* selected, the delete confirmation stays pending across script reruns    *)
(* until the user clicks YES or CANCEL (so that YES can be clicked and     *)
(* delete_collection called for the selected collection), and without a    *)
(* click on YES no delete_collection call is made.                         *)
(***************************************************************************)
\* the confirmation is asked for and a collection is selected
ConfirmationPending ==
    /\ session_state.show_delete_collection_confirm
    /\ session_state.current_collection.some

\* a pending confirmation ends only in a run a click on YES or CANCEL started
StaysPending ==
    (ConfirmationPending /\ ~ConfirmationPending')
    => session_state.clicked \in {"confirm_delete_collection",
                                  "cancel_delete_collection"}

C29_DeleteConfirmation ==
    /\ [][StaysPending]_vars
    /\ [](Len(session_state.delete_calls) <= session_state.yes_clicks)

(***************************************************************************)
(* C30.  ZeroEntropyAPI._make_request never raises: when the HTTP call     *)
(* fails (no connection, so no response; an HTTP error status; a body that *)
(* is not JSON) it returns a dict with an 'error' key.                     *)
(***************************************************************************)
C30_MakeRequestNeverRaises ==
    (op \in {"search_documents", "search_sports_games"}) =>
        /\ raised = ""
        /\ ret.some
        /\ search_outcome # "ok" => HasKey(ret.val, "error")

====
